---- MODULE Spec2Model ----
(***************************************************************************)
(* A model of the race simulation engine of the racing game: the player    *)
(* car's arcade physics (src/src/car.py), the waypoint-following AI car     *)
(* (src/src/npc_car.py), the finish line of the track (src/src/track.py)    *)
(* and the collision / ranking code of the game loop (src/main.py).         *)
(*                                                                         *)
(* The program computes with Python floats.  The model computes with        *)
(* fixed-point integers:                                                    *)
(*   positions   in 1/PosScale   pixel,                                     *)
(*   speeds      in 1/VelScale   pixel per tick,                            *)
(*   angles      in 1/AngleScale degree,                                    *)
(*   sines       in 1/SinScale.                                             *)
(* VelScale = 100 * 2^6, so every constant of the code (0.15, 0.3, 0.02,    *)
(* 0.08, 0.5, 8.0 ...) is an integer and six successive halvings of a       *)
(* multiple of 0.01 are exact.  Where the real result of an operation is    *)
(* not a multiple of the unit it is rounded to the nearest unit (RoundDiv,  *)
(* Sqrt), as the float result is rounded to the nearest double.             *)
(***************************************************************************)
EXTENDS Integers, Sequences, FiniteSets, TLC

VARIABLES
    car,        \* the player car: [x, y, prev_x, angle, velocity]
    npcs,       \* Game.npc_cars: a sequence of AI cars
    waypoints,  \* track.waypoints: a sequence of <<x, y>>
    game,       \* fields of Game and Track: [track_index, ...]
    last,       \* the last operation applied, its inputs and the state before it
    steps       \* number of operations applied so far

vars == <<car, npcs, waypoints, game, last, steps>>

----------------------------------------------------------------------------
(* Fixed-point arithmetic *)

PosScale == 10
VelScale == 6400
AngleScale == 4 * VelScale
SinScale == 1000

Abs(n) == IF n < 0 THEN -n ELSE n
Min(a, b) == IF a < b THEN a ELSE b
Max(a, b) == IF a > b THEN a ELSE b

\* a / b rounded to the nearest integer (b > 0), symmetric around 0
RoundDiv(a, b) ==
    LET n == IF a < 0 THEN -a ELSE a
        q == (n \div b) + (IF 2 * (n % b) >= b THEN 1 ELSE 0)
    IN  IF a < 0 THEN -q ELSE q

RECURSIVE SqrtSearch(_, _, _)
SqrtSearch(n, lo, hi) ==
    IF lo >= hi THEN lo
    ELSE LET mid == (lo + hi + 1) \div 2
         IN  IF mid * mid <= n THEN SqrtSearch(n, mid, hi)
             ELSE SqrtSearch(n, lo, mid - 1)

\* math.sqrt, rounded to the nearest unit
Sqrt(n) ==
    LET r == SqrtSearch(n, 0, 46340)
    IN  IF n - r * r > r THEN r + 1 ELSE r

\* 1000 * sin(d degrees) for d = 0 .. 90
SinTable ==
    << 0, 17, 35, 52, 70, 87, 105, 122, 139, 156, 174, 191, 208, 225, 242,
       259, 276, 292, 309, 326, 342, 358, 375, 391, 407, 423, 438, 454, 469,
       485, 500, 515, 530, 545, 559, 574, 588, 602, 616, 629, 643, 656, 669,
       682, 695, 707, 719, 731, 743, 755, 766, 777, 788, 799, 809, 819, 829,
       839, 848, 857, 866, 875, 883, 891, 899, 906, 914, 921, 927, 934, 940,
       946, 951, 956, 961, 966, 970, 974, 978, 982, 985, 988, 990, 993, 995,
       996, 998, 999, 999, 1000, 1000 >>

\* 1000 * sin of a whole number of degrees, 0 <= d < 360
SinDeg(d) ==
    IF d <= 90 THEN SinTable[d + 1]
    ELSE IF d <= 180 THEN SinTable[180 - d + 1]
    ELSE IF d <= 270 THEN -SinTable[d - 180 + 1]
    ELSE -SinTable[360 - d + 1]

\* math.sin(math.radians(a)), a in angle units, result in 1/SinScale:
\* the table value, interpolated linearly inside a degree
Sin(a) ==
    LET m  == a % (360 * AngleScale)
        d  == m \div AngleScale
        f  == m % AngleScale
        s0 == SinDeg(d)
        s1 == SinDeg((d + 1) % 360)
    IN  s0 + RoundDiv((s1 - s0) * f, AngleScale)

Cos(a) == Sin(a + 90 * AngleScale)

\* velocity * sin-or-cos, converted to position units
Project(velocity, s) == RoundDiv(velocity * s, SinScale * (VelScale \div PosScale))

----------------------------------------------------------------------------
(* Car: src/src/car.py *)

max_velocity == 8 * VelScale
acceleration == (15 * VelScale) \div 100
brake_strength == (30 * VelScale) \div 100
friction == (2 * VelScale) \div 100
grass_friction == (8 * VelScale) \div 100
rotation_speed == 3 * AngleScale
min_velocity_for_rotation == VelScale \div 2
car_collision_radius == 20 * PosScale

\* Car.__init__ / Car.reset
NewCar(x, y, angle) ==
    [x |-> x, y |-> y, prev_x |-> x, angle |-> angle, velocity |-> 0]

\* accelerate without its upper clamp
AccelerateNoClamp(c) == [c EXCEPT !.velocity = @ + acceleration]

Accelerate(c) ==
    LET v == c.velocity + acceleration
    IN  [c EXCEPT !.velocity = IF v > max_velocity THEN max_velocity ELSE v]

Brake(c) ==
    LET v == c.velocity - brake_strength
    IN  [c EXCEPT !.velocity =
            IF v < -(max_velocity \div 2) THEN -(max_velocity \div 2) ELSE v]

\* rotation_speed * rotation_factor, rotation_factor = min(1.0, abs(velocity) / 4.0)
RotationStep(c) ==
    IF Abs(c.velocity) >= 4 * VelScale THEN rotation_speed
    ELSE RoundDiv(rotation_speed * Abs(c.velocity), 4 * VelScale)

\* rotate_left without the reversing branch (lines 63-64)
RotateLeftNoInvert(c) ==
    IF Abs(c.velocity) > min_velocity_for_rotation
    THEN [c EXCEPT !.angle = @ + RotationStep(c)]
    ELSE c

RotateLeft(c) ==
    IF Abs(c.velocity) > min_velocity_for_rotation
    THEN LET a == c.angle + RotationStep(c)
         IN  [c EXCEPT !.angle =
                 IF c.velocity < 0 THEN a - RotationStep(c) * 2 ELSE a]
    ELSE c

RotateRight(c) ==
    IF Abs(c.velocity) > min_velocity_for_rotation
    THEN LET a == c.angle - RotationStep(c)
         IN  [c EXCEPT !.angle =
                 IF c.velocity < 0 THEN a + RotationStep(c) * 2 ELSE a]
    ELSE c

\* apply_friction without the snap to zero (lines 85-86, 89-90)
ApplyFrictionNoSnap(c, on_road) ==
    LET f == IF on_road THEN friction ELSE grass_friction
    IN  IF c.velocity > 0 THEN [c EXCEPT !.velocity = @ - f]
        ELSE IF c.velocity < 0 THEN [c EXCEPT !.velocity = @ + f]
        ELSE c

ApplyFriction(c, on_road) ==
    LET f == IF on_road THEN friction ELSE grass_friction
    IN  IF c.velocity > 0
        THEN [c EXCEPT !.velocity = IF @ - f < 0 THEN 0 ELSE @ - f]
        ELSE IF c.velocity < 0
        THEN [c EXCEPT !.velocity = IF @ + f > 0 THEN 0 ELSE @ + f]
        ELSE c

\* Car.update without the reduced top speed on grass (lines 108-109)
SurfaceVelocityNoCap(c, on_road) == ApplyFriction(c, on_road).velocity

\* Car.update, lines 104-109: friction, then the reduced top speed on grass
SurfaceVelocity(c, on_road) ==
    LET v == ApplyFriction(c, on_road).velocity
    IN  IF ~on_road /\ v > max_velocity \div 2 THEN max_velocity \div 2 ELSE v

\* Car.update, lines 111-116: the candidate position
CandidateX(c, v) == c.x - Project(v, Sin(c.angle))
CandidateY(c, v) == c.y - Project(v, Cos(c.angle))

\* v * 0.5
Half(v) == v \div 2 + (IF v < 0 /\ v % 2 # 0 THEN 1 ELSE 0)

\* Car.update with the two axes sharing one speed penalty
UpdateHalveOnce(c, on_road, world_width, world_height) ==
    LET v0     == SurfaceVelocity(c, on_road)
        nx     == CandidateX(c, v0)
        ny     == CandidateY(c, v0)
        bounds == world_width > 0 /\ world_height > 0
        margin == car_collision_radius
        lowX   == bounds /\ nx < margin
        highX  == bounds /\ ~lowX /\ nx > world_width - margin
        lowY   == bounds /\ ny < margin
        highY  == bounds /\ ~lowY /\ ny > world_height - margin
    IN  [c EXCEPT
            !.prev_x = c.x,
            !.velocity = IF lowX \/ highX \/ lowY \/ highY THEN Half(v0) ELSE v0,
            !.x = IF lowX THEN margin
                  ELSE IF highX THEN world_width - margin ELSE nx,
            !.y = IF lowY THEN margin
                  ELSE IF highY THEN world_height - margin ELSE ny]

Update(c, on_road, world_width, world_height) ==
    LET v0     == SurfaceVelocity(c, on_road)
        nx     == CandidateX(c, v0)
        ny     == CandidateY(c, v0)
        bounds == world_width > 0 /\ world_height > 0
        margin == car_collision_radius
        lowX   == bounds /\ nx < margin
        highX  == bounds /\ ~lowX /\ nx > world_width - margin
        lowY   == bounds /\ ny < margin
        highY  == bounds /\ ~lowY /\ ny > world_height - margin
        v1     == IF lowX \/ highX THEN Half(v0) ELSE v0
        v2     == IF lowY \/ highY THEN Half(v1) ELSE v1
    IN  [c EXCEPT
            !.prev_x = c.x,
            !.velocity = v2,
            !.x = IF lowX THEN margin
                  ELSE IF highX THEN world_width - margin ELSE nx,
            !.y = IF lowY THEN margin
                  ELSE IF highY THEN world_height - margin ELSE ny]

----------------------------------------------------------------------------
(* The player car driven by any sequence of its operations *)

MaxCarSteps == 2

\* world sizes handed to Car.update, in pixels: none (the default 0, 0),
\* the oval track's 12 x 10 tiles of 128, a world of exactly two margins,
\* a world smaller than two margins
WorldSizes == { <<0, 0>>, <<1536, 1280>>, <<40, 40>>, <<30, 1280>> }

\* speeds the car reaches from 0 by accelerate / brake / apply_friction,
\* in 1/100 pixel per tick
CarSpeeds == { 0, 1, 13, 50, 51, 200, 405, 600, 795, 800,
               -1, -51, -200, -390, -400 }

\* positions (pixels): the oval's start, beside the left and the top edge,
\* the far corner
CarPlaces == { <<832, 1088>>, <<21, 640>>, <<1515, 1259>> }

CarAngles == { 0, 90, 225, 270 }

NoOp == [op |-> "init", pre |-> NewCar(0, 0, 0), on_road |-> TRUE,
         world_width |-> 0, world_height |-> 0]

InitCar ==
    /\ \E p \in CarPlaces, a \in CarAngles, s \in CarSpeeds :
         car = [NewCar(p[1] * PosScale, p[2] * PosScale, a * AngleScale)
                   EXCEPT !.velocity = s * (VelScale \div 100)]
    /\ npcs = <<>>
    /\ waypoints = <<>>
    /\ game = [track_index |-> 0]
    /\ last = NoOp
    /\ steps = 0

CarOp(name, c, on_road, w, h) ==
    /\ steps < MaxCarSteps
    /\ car' = c
    /\ last' = [op |-> name, pre |-> car, on_road |-> on_road,
                world_width |-> w, world_height |-> h]
    /\ steps' = steps + 1
    /\ UNCHANGED <<npcs, waypoints, game>>

DoAccelerate == CarOp("accelerate", Accelerate(car), TRUE, 0, 0)
DoBrake == CarOp("brake", Brake(car), TRUE, 0, 0)
DoRotateLeft == CarOp("rotate_left", RotateLeft(car), TRUE, 0, 0)
DoRotateRight == CarOp("rotate_right", RotateRight(car), TRUE, 0, 0)
DoApplyFriction ==
    \E on_road \in BOOLEAN :
        CarOp("apply_friction", ApplyFriction(car, on_road), on_road, 0, 0)
DoUpdate ==
    \E on_road \in BOOLEAN, w \in WorldSizes :
        CarOp("update",
              Update(car, on_road, w[1] * PosScale, w[2] * PosScale),
              on_road, w[1] * PosScale, w[2] * PosScale)

NextCar ==
    \/ DoAccelerate
    \/ DoBrake
    \/ DoRotateLeft
    \/ DoRotateRight
    \/ DoApplyFriction
    \/ DoUpdate

SpecCar == InitCar /\ [][NextCar]_vars

LegalSpeed(v) == -(max_velocity \div 2) <= v /\ v <= max_velocity

\* C1: after every single call of accelerate, brake, rotate_left,
\* rotate_right, apply_friction or update (any surface, any world bounds) the
\* player's speed satisfies -max_velocity/2 <= velocity <= max_velocity.
C1_SpeedWithinLimits == LegalSpeed(car.velocity)

\* C1 witness: an accelerate call that had to clamp, after an earlier call
C1_AccelerateClamped ==
    /\ steps = MaxCarSteps
    /\ last.op = "accelerate"
    /\ last.pre.velocity + acceleration > max_velocity
    /\ car.velocity = max_velocity

\* the heading change of the last call
Turned == car.angle - last.pre.angle

\* the heading change the same steer call makes at the opposite speed
TurnedMirrored ==
    LET m == [last.pre EXCEPT !.velocity = -last.pre.velocity]
    IN  (IF last.op = "rotate_left" THEN RotateLeft(m) ELSE RotateRight(m)).angle
            - m.angle

SteeredInReverse ==
    /\ last.op \in {"rotate_left", "rotate_right"}
    /\ last.pre.velocity < -min_velocity_for_rotation

\* C5 as stated: a steer action while reversing turns the heading the
\* opposite way to the same action at the same forward speed, by twice the
\* magnitude (2 * rotation_speed * min(1, |velocity| / 4)).
C5_ReverseSteerDoubled ==
    SteeredInReverse =>
        /\ Turned = -2 * TurnedMirrored
        /\ Abs(Turned) = 2 * RotationStep(last.pre)

\* C5 amended: a steer action while reversing turns the heading the
\* opposite way to the same action at the same forward speed, by the same
\* magnitude rotation_speed * min(1, |velocity| / 4).
C5_ReverseSteerMirrored ==
    SteeredInReverse =>
        /\ Turned = -TurnedMirrored
        /\ Abs(Turned) = RotationStep(last.pre)
        /\ Turned # 0
        /\ (last.op = "rotate_left") = (Turned < 0)

\* C5 witness: rotate_left at -2.0 turned the heading clockwise
C5_ReverseLeftTurned ==
    /\ last.op = "rotate_left"
    /\ last.pre.velocity = -2 * VelScale
    /\ Turned = -(rotation_speed \div 2)

\* C6: when update is called with world_width and world_height of at least
\* 2 * collision_radius, the committed position lies within
\* [collision_radius, world - collision_radius] on both axes and the speed
\* (after friction and the grass cap) is multiplied by 0.5 once per axis on
\* which the candidate position was clamped, and not at all otherwise.
C6_BoundaryClamp ==
    (/\ last.op = "update"
     /\ last.world_width >= 2 * car_collision_radius
     /\ last.world_height >= 2 * car_collision_radius) =>
        LET r  == car_collision_radius
            v0 == SurfaceVelocity(last.pre, last.on_road)
            nx == CandidateX(last.pre, v0)
            ny == CandidateY(last.pre, v0)
            cx == nx < r \/ nx > last.world_width - r
            cy == ny < r \/ ny > last.world_height - r
        IN  /\ r <= car.x /\ car.x <= last.world_width - r
            /\ r <= car.y /\ car.y <= last.world_height - r
            /\ (~cx => car.x = nx) /\ (~cy => car.y = ny)
            /\ (~cx /\ ~cy => car.velocity = v0)
            /\ (cx # cy => 2 * car.velocity = v0)
            /\ (cx /\ cy => 4 * car.velocity = v0)

\* C6 witness: in the oval's world the far corner stopped the car on both
\* axes and the speed was quartered
C6_ClampedOnBothAxes ==
    /\ last.op = "update"
    /\ last.world_width = 1536 * PosScale
    /\ last.world_height = 1280 * PosScale
    /\ last.pre.x < car.x /\ car.x = last.world_width - car_collision_radius
    /\ last.pre.y < car.y /\ car.y = last.world_height - car_collision_radius
    /\ car.velocity > 0
    /\ 4 * car.velocity = SurfaceVelocity(last.pre, last.on_road)

\* C7: for a speed within the legal range before the call, immediately after
\* update(on_road = False) |velocity| <= 0.5 * max_velocity.
C7_OffRoadCap ==
    (last.op = "update" /\ ~last.on_road /\ LegalSpeed(last.pre.velocity)) =>
        Abs(car.velocity) <= max_velocity \div 2

\* C7 witness: the car left the road at full speed and was cut to the cap
C7_CutToCap ==
    /\ last.op = "update"
    /\ ~last.on_road
    /\ last.pre.velocity = max_velocity
    /\ car.velocity = max_velocity \div 2

\* C8: apply_friction never changes the sign of the speed and never
\* increases |velocity|: v > 0 becomes max(0, v - f), v < 0 becomes
\* min(0, v + f), 0 stays 0, with f the road friction on road and the larger
\* grass friction off road; |velocity| <= f becomes exactly 0.
C8_FrictionDecays ==
    last.op = "apply_friction" =>
        LET v == last.pre.velocity
            f == IF last.on_road THEN friction ELSE grass_friction
        IN  /\ grass_friction > friction
            /\ (v > 0 => car.velocity = Max(0, v - f))
            /\ (v < 0 => car.velocity = Min(0, v + f))
            /\ (v = 0 => car.velocity = 0)
            /\ (v >= 0 => car.velocity >= 0)
            /\ (v <= 0 => car.velocity <= 0)
            /\ Abs(car.velocity) <= Abs(v)
            /\ (Abs(v) <= f => car.velocity = 0)
            /\ car = [last.pre EXCEPT !.velocity = car.velocity]

\* C8 witness: speed 0.01 with friction 0.02 became exactly 0
C8_SnappedToZero ==
    /\ last.op = "apply_friction"
    /\ last.on_road
    /\ last.pre.velocity = VelScale \div 100
    /\ car.velocity = 0
----------------------------------------------------------------------------
(* Track: the finish line, src/src/track.py *)

tile_size == 128

TrackIndexes == {0, 1}

\* _create_oval_track (column 7) / _create_figure8_track (column 3)
finish_line_x(track_index) ==
    (IF track_index = 0 THEN 7 ELSE 3) * tile_size * PosScale
finish_line_y1(track_index) == 8 * tile_size * PosScale
finish_line_y2(track_index) == 9 * tile_size * PosScale

\* check_finish_line with the spec's reading of the crossing test
CheckFinishLineAtOrBeyond(track_index, old_x, new_x, y) ==
    IF y < finish_line_y1(track_index) \/ y > finish_line_y2(track_index)
    THEN FALSE
    ELSE old_x >= finish_line_x(track_index)
            /\ finish_line_x(track_index) > new_x

\* check_finish_line counting a crossing in either direction
CheckFinishLineEitherWay(track_index, old_x, new_x, y) ==
    IF y < finish_line_y1(track_index) \/ y > finish_line_y2(track_index)
    THEN FALSE
    ELSE \/ old_x > finish_line_x(track_index)
              /\ finish_line_x(track_index) >= new_x
         \/ new_x > finish_line_x(track_index)
              /\ finish_line_x(track_index) >= old_x

CheckFinishLine(track_index, old_x, new_x, y) ==
    IF y < finish_line_y1(track_index) \/ y > finish_line_y2(track_index)
    THEN FALSE
    ELSE IF old_x > finish_line_x(track_index)
            /\ finish_line_x(track_index) >= new_x
    THEN TRUE
    ELSE FALSE

\* x arguments around the line and y arguments around the line's ends,
\* as offsets in position units
FinishDX == { -100, -1, 0, 1, 100 }
FinishYs(track_index) ==
    { finish_line_y1(track_index) - 1, finish_line_y1(track_index),
      finish_line_y1(track_index) + 64 * PosScale,
      finish_line_y2(track_index), finish_line_y2(track_index) + 1 }

InitFinish ==
    /\ game \in [track_index : TrackIndexes]
    /\ car = NewCar(0, 0, 0)
    /\ npcs = <<>>
    /\ waypoints = <<>>
    /\ last = NoOp
    /\ steps = 0

DoCheckFinishLine ==
    \E dold \in FinishDX, dnew \in FinishDX, y \in FinishYs(game.track_index) :
        LET old_x == finish_line_x(game.track_index) + dold
            new_x == finish_line_x(game.track_index) + dnew
        IN  /\ last' = [op |-> "check_finish_line", old_x |-> old_x,
                        new_x |-> new_x, y |-> y,
                        result |-> CheckFinishLine(game.track_index,
                                                   old_x, new_x, y)]
            /\ UNCHANGED <<car, npcs, waypoints, game, steps>>

NextFinish == DoCheckFinishLine

SpecFinish == InitFinish /\ [][NextFinish]_vars

OnFinishSegment ==
    /\ finish_line_y1(game.track_index) <= last.y
    /\ last.y <= finish_line_y2(game.track_index)

\* C2 as stated: check_finish_line reports a crossing exactly when y lies in
\* the finish line's y-range and old_x >= finish_line_x > new_x; a move that
\* starts exactly on the line and goes to smaller x counts, a move that ends
\* exactly on the line does not.
C2_CrossingAtOrBeyond ==
    last.op = "check_finish_line" =>
        (last.result <=>
            (/\ OnFinishSegment
             /\ last.old_x >= finish_line_x(game.track_index)
             /\ finish_line_x(game.track_index) > last.new_x))

\* C2 amended: check_finish_line reports a crossing exactly when y lies in
\* the finish line's y-range and old_x > finish_line_x >= new_x; a move that
\* starts exactly on the line does not count, a move from beyond the line
\* that ends exactly on it counts, a move with increasing x never counts.
C2_CrossingStrictlyBeyond ==
    last.op = "check_finish_line" =>
        /\ (last.result <=>
              (/\ OnFinishSegment
               /\ last.old_x > finish_line_x(game.track_index)
               /\ finish_line_x(game.track_index) >= last.new_x))
        /\ (last.old_x = finish_line_x(game.track_index) => ~last.result)
        /\ (last.new_x > last.old_x => ~last.result)

\* C2 witness: a move from beyond the line that ends exactly on it counted
C2_EndedOnTheLine ==
    /\ last.op = "check_finish_line"
    /\ last.new_x = finish_line_x(game.track_index)
    /\ last.old_x > last.new_x
    /\ last.result
----------------------------------------------------------------------------
(* NPCCar: src/src/npc_car.py *)

npc_acceleration == (12 * VelScale) \div 100
npc_friction == (2 * VelScale) \div 100
npc_rotation_speed == (5 * AngleScale) \div 2
waypoint_threshold == 60 * PosScale

\* main.py line 147: difficulty = 0.6 + i * 0.08, in 1/100
Difficulty(i) == 60 + i * 8

\* NPCCar.__init__ for the i-th spawned car (i = 0, 1, ...):
\* max_velocity = 6.0 * difficulty
NewNPC(x, y, i, wp_index) ==
    [x |-> x, y |-> y, prev_x |-> x, angle |-> 0, velocity |-> 0,
     max_velocity |-> (6 * Difficulty(i) * VelScale) \div 100,
     current_waypoint |-> wp_index]

\* apply_collision without the speed penalty
NPCApplyCollisionKeepSpeed(c, push_x, push_y) ==
    [c EXCEPT !.x = @ + push_x, !.y = @ + push_y]

NPCApplyCollision(c, push_x, push_y) ==
    [c EXCEPT !.x = @ + push_x, !.y = @ + push_y, !.velocity = Half(@)]

\* the player's apply_collision recording the x it pushes from as prev_x
CarApplyCollisionSetsPrevX(c, push_x, push_y) ==
    [c EXCEPT !.prev_x = c.x, !.x = @ + push_x, !.y = @ + push_y,
              !.velocity = Half(@)]

\* The player's apply_collision: main.py calls it on the player car, and
\* car.py does not define it; after section 4.4 of the specification
\* (push along the axis, speed scaled by 0.5).
CarApplyCollision(c, push_x, push_y) ==
    [c EXCEPT !.x = @ + push_x, !.y = @ + push_y, !.velocity = Half(@)]

\* atan of aa / bb in 1/100 degree, 0 .. 9000, for aa, bb >= 0 not both 0:
\* the degree d with tan(d) <= aa / bb < tan(d + 1), and inside it the zero
\* of sin(t) * bb - cos(t) * aa, interpolated linearly
AtanCenti(aa, bb) ==
    LET cross(d) == SinDeg(d) * bb - SinDeg(90 - d) * aa
        d0 == CHOOSE d \in 0..90 :
                  cross(d) <= 0 /\ (d = 90 \/ cross(d + 1) > 0)
    IN  IF d0 = 90 THEN 9000
        ELSE 100 * d0
               + RoundDiv(-cross(d0) * 100, cross(d0 + 1) - cross(d0))

\* math.degrees(math.atan2(-dx, -dy)), to 1/100 degree, in angle units.
\* dx = target_x - self.x is +0.0 when the two are equal, so -dx is -0.0
\* and atan2 gives -0.0 for -dy > 0 and -pi otherwise.
TargetAngle(dx, dy) ==
    IF dx = 0 THEN (IF dy < 0 THEN 0 ELSE -180 * AngleScale)
    ELSE LET t == AtanCenti(Abs(dx), Abs(dy))
         IN  (AngleScale \div 100) *
                (IF -dx > 0 THEN (IF -dy >= 0 THEN t ELSE 18000 - t)
                 ELSE (IF -dy >= 0 THEN -t ELSE t - 18000))

\* angle_diff without the normalisation of line 70
AngleDiffNoWrap(target_angle, angle) == target_angle - angle

\* line 70: (target_angle - self.angle + 180) % 360 - 180
AngleDiff(target_angle, angle) ==
    ((target_angle - angle + 180 * AngleScale) % (360 * AngleScale))
        - 180 * AngleScale

\* lines 73-77 turning by the whole rotation_speed, whatever the error
SteerFullStep(angle, angle_diff) ==
    IF Abs(angle_diff) > 2 * AngleScale
    THEN IF angle_diff > 0
         THEN angle + npc_rotation_speed
         ELSE angle - npc_rotation_speed
    ELSE angle

\* lines 73-77
Steer(angle, angle_diff) ==
    IF Abs(angle_diff) > 2 * AngleScale
    THEN IF angle_diff > 0
         THEN angle + Min(npc_rotation_speed, angle_diff)
         ELSE angle - Min(npc_rotation_speed, -angle_diff)
    ELSE angle

\* line 80: turn_factor = 1.0 - min(abs(angle_diff) / 90, 0.5), in 1/TurnScale
TurnScale == 9000
TurnFactor(angle_diff) ==
    TurnScale - Min(RoundDiv(Abs(angle_diff), AngleScale \div 100),
                    TurnScale \div 2)

\* lines 81-89 without the cap of lines 82-83
NPCVelocityNoCap(c, angle_diff, on_road) ==
    LET tf  == TurnFactor(angle_diff)
        v1  == c.velocity + RoundDiv(npc_acceleration * tf, TurnScale)
        v3  == v1 - (IF on_road THEN npc_friction ELSE npc_friction * 3)
    IN  IF v3 < 0 THEN 0 ELSE v3

\* lines 81-89: accelerate, cap, friction
NPCVelocity(c, angle_diff, on_road) ==
    LET tf  == TurnFactor(angle_diff)
        v1  == c.velocity + RoundDiv(npc_acceleration * tf, TurnScale)
        cap == RoundDiv(c.max_velocity * tf, TurnScale)
        v2  == IF v1 > cap THEN cap ELSE v1
        v3  == v2 - (IF on_road THEN npc_friction ELSE npc_friction * 3)
    IN  IF v3 < 0 THEN 0 ELSE v3

\* line 99 without the modulo
NextWaypointNoWrap(current_waypoint, n) == current_waypoint + 1

\* line 99
NextWaypoint(current_waypoint, n) == (current_waypoint + 1) % n

\* NPCCar.update with the distance of line 97 taken from the position
\* after the move of lines 93-94
NPCUpdateTestAfterMove(c, wps, on_road) ==
    IF Len(wps) = 0 THEN [c EXCEPT !.prev_x = c.x]
    ELSE LET target     == wps[c.current_waypoint + 1]
             angle_diff == AngleDiff(TargetAngle(target[1] - c.x,
                                                 target[2] - c.y), c.angle)
             angle      == Steer(c.angle, angle_diff)
             velocity   == NPCVelocity(c, angle_diff, on_road)
             dx         == target[1] - (c.x - Project(velocity, Sin(angle)))
             dy         == target[2] - (c.y - Project(velocity, Cos(angle)))
         IN  [c EXCEPT
                !.prev_x = c.x,
                !.angle = angle,
                !.velocity = velocity,
                !.x = @ - Project(velocity, Sin(angle)),
                !.y = @ - Project(velocity, Cos(angle)),
                !.current_waypoint =
                    IF dx * dx + dy * dy
                          < waypoint_threshold * waypoint_threshold
                    THEN NextWaypoint(@, Len(wps))
                    ELSE @]

\* NPCCar.update returning before line 56 when there are no waypoints
NPCUpdateEarlyReturn(c, wps, on_road) ==
    IF Len(wps) = 0 THEN c
    ELSE LET target     == wps[c.current_waypoint + 1]
             dx         == target[1] - c.x
             dy         == target[2] - c.y
             angle_diff == AngleDiff(TargetAngle(dx, dy), c.angle)
             angle      == Steer(c.angle, angle_diff)
             velocity   == NPCVelocity(c, angle_diff, on_road)
         IN  [c EXCEPT
                !.prev_x = c.x,
                !.angle = angle,
                !.velocity = velocity,
                !.x = @ - Project(velocity, Sin(angle)),
                !.y = @ - Project(velocity, Cos(angle)),
                !.current_waypoint =
                    IF dx * dx + dy * dy
                          < waypoint_threshold * waypoint_threshold
                    THEN NextWaypoint(@, Len(wps))
                    ELSE @]

\* NPCCar.update
NPCUpdate(c, wps, on_road) ==
    IF Len(wps) = 0 THEN [c EXCEPT !.prev_x = c.x]
    ELSE LET target     == wps[c.current_waypoint + 1]
             dx         == target[1] - c.x
             dy         == target[2] - c.y
             angle_diff == AngleDiff(TargetAngle(dx, dy), c.angle)
             angle      == Steer(c.angle, angle_diff)
             velocity   == NPCVelocity(c, angle_diff, on_road)
         IN  [c EXCEPT
                !.prev_x = c.x,
                !.angle = angle,
                !.velocity = velocity,
                !.x = @ - Project(velocity, Sin(angle)),
                !.y = @ - Project(velocity, Cos(angle)),
                !.current_waypoint =
                    IF dx * dx + dy * dy
                          < waypoint_threshold * waypoint_threshold
                    THEN NextWaypoint(@, Len(wps))
                    ELSE @]

\* line 123: max_dist = 200
max_dist == 200 * PosScale

\* NPCCar.get_progress, in 1/max_dist waypoint
NPCGetProgress(c, wps) ==
    IF Len(wps) = 0 THEN 0
    ELSE LET target == wps[c.current_waypoint + 1]
             dx     == target[1] - c.x
             dy     == target[2] - c.y
             dist   == Sqrt(dx * dx + dy * dy)
         IN  c.current_waypoint * max_dist + (max_dist - Min(dist, max_dist))

----------------------------------------------------------------------------
(* Game._handle_collisions: src/main.py *)

collision_radius == 25 * PosScale

AllCars == <<car>> \o npcs

ApplyCollision(cars, k, push_x, push_y) ==
    [cars EXCEPT ![k] = IF k = 1 THEN CarApplyCollision(@, push_x, push_y)
                        ELSE NPCApplyCollision(@, push_x, push_y)]

\* dx * dx + dy * dy of cars i and j
PairDist2(cars, i, j) ==
    (cars[j].x - cars[i].x) * (cars[j].x - cars[i].x)
        + (cars[j].y - cars[i].y) * (cars[j].y - cars[i].y)

\* line 334 with dist <= collision_radius * 2
PairHitAtOrBelow(cars, i, j) ==
    /\ PairDist2(cars, i, j) <= (collision_radius * 2) * (collision_radius * 2)
    /\ PairDist2(cars, i, j) > 0

\* line 334: dist < collision_radius * 2 and dist > 0
PairHit(cars, i, j) ==
    /\ PairDist2(cars, i, j) < (collision_radius * 2) * (collision_radius * 2)
    /\ PairDist2(cars, i, j) > 0

\* lines 336-338: (d / dist) * overlap, overlap = (collision_radius * 2 - dist) / 2
Push(d, dist) == RoundDiv(d * (collision_radius * 2 - dist), 2 * dist)

\* the push with the overlap not halved between the two cars
ResolvePairFullOverlap(cars, i, j) ==
    IF PairHit(cars, i, j)
    THEN LET dist   == Sqrt(PairDist2(cars, i, j))
             push_x == 2 * Push(cars[j].x - cars[i].x, dist)
             push_y == 2 * Push(cars[j].y - cars[i].y, dist)
         IN  ApplyCollision(ApplyCollision(cars, i, -push_x, -push_y),
                            j, push_x, push_y)
    ELSE cars

\* both cars pushed the same way
ResolvePairSameWay(cars, i, j) ==
    IF PairHit(cars, i, j)
    THEN LET dist   == Sqrt(PairDist2(cars, i, j))
             push_x == Push(cars[j].x - cars[i].x, dist)
             push_y == Push(cars[j].y - cars[i].y, dist)
         IN  ApplyCollision(ApplyCollision(cars, i, push_x, push_y),
                            j, push_x, push_y)
    ELSE cars

\* lines 324-342: one pair
ResolvePair(cars, i, j) ==
    IF PairHit(cars, i, j)
    THEN LET dist   == Sqrt(PairDist2(cars, i, j))
             push_x == Push(cars[j].x - cars[i].x, dist)
             push_y == Push(cars[j].y - cars[i].y, dist)
         IN  ApplyCollision(ApplyCollision(cars, i, -push_x, -push_y),
                            j, push_x, push_y)
    ELSE cars

\* lines 322-323: for i in range(n): for j in range(i + 1, n), each pair
\* reading the cars as the pairs before it left them
RECURSIVE CollidePairs(_, _, _)
CollidePairs(cars, i, j) ==
    IF i >= Len(cars) THEN cars
    ELSE IF j > Len(cars) THEN CollidePairs(cars, i + 1, i + 2)
    ELSE CollidePairs(ResolvePair(cars, i, j), i, j + 1)

HandleCollisions(cars) == CollidePairs(cars, 1, 2)

\* the pairs the pass corrected
RECURSIVE CollidedPairs(_, _, _)
CollidedPairs(cars, i, j) ==
    IF i >= Len(cars) THEN {}
    ELSE IF j > Len(cars) THEN CollidedPairs(cars, i + 1, i + 2)
    ELSE (IF PairHit(cars, i, j) THEN {<<i, j>>} ELSE {})
            \cup CollidedPairs(ResolvePair(cars, i, j), i, j + 1)

----------------------------------------------------------------------------
(* The cars of one tick, after movement, handed to _handle_collisions *)

MaxCollideNpcs == 2

\* where the AI cars stand relative to the player, in pixels
CollideOffsets ==
    { <<0, 0>>, <<40, 0>>, <<80, 0>>, <<24, 32>>, <<-27, -36>>, <<0, -44>>,
      <<30, 40>>, <<30, 30>>, <<80, 30>> }

\* speeds in 1/100 pixel per tick
CollidePlayerSpeeds == { 0, 400, -200 }
CollideNpcSpeeds == { 0, 360 }

InitCollide ==
    /\ car \in { [NewCar(832 * PosScale, 1088 * PosScale, 90 * AngleScale)
                     EXCEPT !.velocity = v * (VelScale \div 100)] :
                 v \in CollidePlayerSpeeds }
    /\ \E n \in 1..MaxCollideNpcs :
         \E off \in [1..n -> CollideOffsets], v \in [1..n -> CollideNpcSpeeds] :
            npcs = [k \in 1..n |->
                      [NewNPC((832 + off[k][1]) * PosScale,
                              (1088 + off[k][2]) * PosScale, k - 1, 0)
                          EXCEPT !.velocity = v[k] * (VelScale \div 100)]]
    /\ waypoints = <<>>
    /\ game = [track_index |-> 0]
    /\ last = NoOp
    /\ steps = 0

DoHandleCollisions ==
    /\ steps = 0
    /\ LET after == HandleCollisions(AllCars)
       IN  /\ car' = after[1]
           /\ npcs' = SubSeq(after, 2, Len(after))
    /\ last' = [op |-> "handle_collisions", cars |-> AllCars]
    /\ steps' = 1
    /\ UNCHANGED <<waypoints, game>>

NextCollide == DoHandleCollisions

SpecCollide == InitCollide /\ [][NextCollide]_vars

\* the square root and the two divisions of the pair's correction are exact
ExactPair(cars, i, j) ==
    LET d2   == PairDist2(cars, i, j)
        dist == Sqrt(d2)
        over == collision_radius * 2 - dist
    IN  /\ dist * dist = d2
        /\ ((cars[j].x - cars[i].x) * over) % (2 * dist) = 0
        /\ ((cars[j].y - cars[i].y) * over) % (2 * dist) = 0

TwoCarsCollided ==
    /\ last.op = "handle_collisions"
    /\ Len(last.cars) = 2
    /\ PairHit(last.cars, 1, 2)

\* C3: with exactly two vehicles whose centre distance d satisfies
\* 0 < d < 2 * collision_radius, after _handle_collisions the two
\* displacements are equal in magnitude and opposite in direction along the
\* line joining the centres, each speed is exactly half its value before, and
\* the centre distance is exactly 2 * collision_radius (to within one unit
\* of the fixed-point resolution where the square root or the quotient is
\* not a multiple of the unit).
C3_TwoCarCollision ==
    TwoCarsCollided =>
        LET a  == last.cars[1]
            b  == last.cars[2]
            dx == b.x - a.x
            dy == b.y - a.y
            mx == AllCars[2].x - b.x
            my == AllCars[2].y - b.y
        IN  /\ AllCars[1].x - a.x = -mx
            /\ AllCars[1].y - a.y = -my
            /\ mx * dx + my * dy > 0
            /\ 2 * AllCars[1].velocity = a.velocity
            /\ 2 * AllCars[2].velocity = b.velocity
            /\ Abs(Sqrt(PairDist2(AllCars, 1, 2)) - 2 * collision_radius) <= 1
            /\ ExactPair(last.cars, 1, 2) =>
                 /\ mx * dy = my * dx
                 /\ PairDist2(AllCars, 1, 2)
                      = (2 * collision_radius) * (2 * collision_radius)

\* C3 witness: two moving cars 40 pixels apart on a 3-4-5 line were set
\* exactly 50 pixels apart
C3_PushedApart ==
    /\ TwoCarsCollided
    /\ last.cars[2].x - last.cars[1].x = 24 * PosScale
    /\ last.cars[2].y - last.cars[1].y = 32 * PosScale
    /\ last.cars[1].velocity # 0 /\ last.cars[2].velocity # 0
    /\ AllCars[2].x - AllCars[1].x = 30 * PosScale
    /\ AllCars[2].y - AllCars[1].y = 40 * PosScale

\* The resolver of section 5 of the specification: every correction of car
\* k is computed from the cars as they stood before any correction
RECURSIVE SnapshotCar(_, _, _, _)
SnapshotCar(cars, k, j, c) ==
    IF j > Len(cars) THEN c
    ELSE IF j # k /\ PairHit(cars, Min(k, j), Max(k, j))
    THEN LET i    == Min(k, j)
             m    == Max(k, j)
             dist == Sqrt(PairDist2(cars, i, m))
             sign == IF k = i THEN -1 ELSE 1
         IN  SnapshotCar(cars, k, j + 1,
                 [c EXCEPT
                     !.x = @ + sign * Push(cars[m].x - cars[i].x, dist),
                     !.y = @ + sign * Push(cars[m].y - cars[i].y, dist),
                     !.velocity = Half(@)])
    ELSE SnapshotCar(cars, k, j + 1, c)

SnapshotCollisions(cars) ==
    [k \in 1..Len(cars) |-> SnapshotCar(cars, k, 1, cars[k])]

\* the pairs that overlap before any correction
SnapshotPairs(cars) ==
    { p \in (1..Len(cars)) \X (1..Len(cars)) :
        p[1] < p[2] /\ PairHit(cars, p[1], p[2]) }

NoSharedCar(pairs) ==
    \A p \in pairs, q \in pairs :
        p # q => {p[1], p[2]} \cap {q[1], q[2]} = {}

ThreeOrMoreCars ==
    /\ last.op = "handle_collisions"
    /\ Len(last.cars) >= 3

\* C4 as stated: with three or more vehicles the result of
\* _handle_collisions equals the result of a resolver that computes every
\* pairwise correction from the positions before any correction.
C4_SimultaneousResolution ==
    ThreeOrMoreCars =>
        \A k \in 1..Len(last.cars) :
            AllCars[k] = SnapshotCollisions(last.cars)[k]

\* C4 amended: _handle_collisions visits the pairs in index order and
\* computes each pair's correction from the positions current at that moment,
\* corrections of earlier pairs of the same tick included; its result equals
\* the snapshot resolver's when no vehicle belongs to two pairs overlapping
\* in the snapshot and the pass corrects exactly the pairs overlapping in the
\* snapshot (no correction creates or removes an overlap).
C4_PairwiseInOrder ==
    (/\ ThreeOrMoreCars
     /\ NoSharedCar(SnapshotPairs(last.cars))
     /\ CollidedPairs(last.cars, 1, 2) = SnapshotPairs(last.cars)) =>
        \A k \in 1..Len(last.cars) :
            AllCars[k] = SnapshotCollisions(last.cars)[k]

\* C4 witness: of three cars one pair overlapped and was corrected
C4_OnePairOfThree ==
    /\ ThreeOrMoreCars
    /\ SnapshotPairs(last.cars) = {<<2, 3>>}
    /\ CollidedPairs(last.cars, 1, 2) = {<<2, 3>>}
    /\ AllCars[2] # last.cars[2]
    /\ AllCars[1] = last.cars[1]

\* the centres of cars i and j coincide
Coincide(cars, i, j) == cars[i].x = cars[j].x /\ cars[i].y = cars[j].y

\* the centres of cars i and j are at least 2 * collision_radius apart
Apart(cars, i, j) ==
    PairDist2(cars, i, j) >= (2 * collision_radius) * (2 * collision_radius)

\* at every visit of the pass to a pair that coincides or is apart, the
\* pair's step leaves all cars as they are
RECURSIVE SkippedPairsUntouched(_, _, _)
SkippedPairsUntouched(cars, i, j) ==
    IF i >= Len(cars) THEN TRUE
    ELSE IF j > Len(cars) THEN SkippedPairsUntouched(cars, i + 1, i + 2)
    ELSE /\ (Coincide(cars, i, j) \/ Apart(cars, i, j))
                => ResolvePair(cars, i, j) = cars
         /\ SkippedPairsUntouched(ResolvePair(cars, i, j), i, j + 1)

AllCoincideOrApart(cars) ==
    \A i \in 1..Len(cars), j \in 1..Len(cars) :
        i < j => (Coincide(cars, i, j) \/ Apart(cars, i, j))

\* C17: in _handle_collisions a pair of vehicles whose centres coincide
\* (distance 0), and a pair whose centre distance is at least
\* 2 * collision_radius, receives no correction from that pair: neither
\* position nor speed of either vehicle changes on account of it (and no
\* division by zero occurs); when every pair is of one of these two kinds
\* the pass changes nothing at all.
C17_NoCorrectionAtZeroOrFar ==
    last.op = "handle_collisions" =>
        /\ SkippedPairsUntouched(last.cars, 1, 2)
        /\ AllCoincideOrApart(last.cars) => AllCars = last.cars

\* C17 witness: the first AI car stood exactly on the moving player, the
\* second, moving, exactly 2 * collision_radius from both, and the pass
\* left all three as they were
C17_CoincidentAndFarUntouched ==
    /\ last.op = "handle_collisions"
    /\ Len(last.cars) = 3
    /\ Coincide(last.cars, 1, 2)
    /\ PairDist2(last.cars, 1, 3)
          = (2 * collision_radius) * (2 * collision_radius)
    /\ last.cars[1].velocity # 0
    /\ last.cars[3].velocity # 0
    /\ AllCars = last.cars
----------------------------------------------------------------------------
(* One AI car following a waypoint list *)

MaxNpcTicks == 3

\* waypoint lists, in pixels: three waypoints round a bend of the oval's
\* bottom straight, a single waypoint, and no waypoint at all
WaypointLists ==
    { << <<700, 1088>>, <<600, 1088>>, <<540, 1010>> >>,
      << <<832, 1088>> >>,
      << >> }

\* where the AI car stands, in pixels
NpcPlaces == { <<832, 1088>>, <<650, 1088>>, <<560, 1040>>, <<700, 1088>> }
NpcAngles == { 0, 88, 90, 200 }
NpcSpeeds == { 0, 360 }
\* x - prev_x in pixels: 0 after an update that did not move the car, 30
\* after a collision pushed it (apply_collision leaves prev_x alone)
NpcPushes == { 0, 30 }

ScaleWaypoints(wps) ==
    [k \in 1..Len(wps) |-> <<wps[k][1] * PosScale, wps[k][2] * PosScale>>]

InitNPC ==
    /\ waypoints \in { ScaleWaypoints(w) : w \in WaypointLists }
    /\ \E p \in NpcPlaces, a \in NpcAngles, v \in NpcSpeeds,
          push \in NpcPushes, wp \in 0..Max(Len(waypoints) - 1, 0) :
         npcs = << [NewNPC(p[1] * PosScale, p[2] * PosScale, 0, wp)
                      EXCEPT !.angle = a * AngleScale,
                             !.velocity = v * (VelScale \div 100),
                             !.prev_x = @ - push * PosScale] >>
    /\ car = NewCar(832 * PosScale, 1088 * PosScale, 90 * AngleScale)
    /\ game = [track_index |-> 0]
    /\ last = NoOp
    /\ steps = 0

DoNPCUpdate ==
    \E on_road \in BOOLEAN :
        /\ steps < MaxNpcTicks
        /\ npcs' = [npcs EXCEPT ![1] = NPCUpdate(@, waypoints, on_road)]
        /\ last' = [op |-> "npc_update", pre |-> npcs[1], on_road |-> on_road]
        /\ steps' = steps + 1
        /\ UNCHANGED <<car, waypoints, game>>

NextNPC == DoNPCUpdate

SpecNPC == InitNPC /\ [][NextNPC]_vars

\* C9: for a fixed non-empty waypoint list and an index that starts in
\* range, after any number of update calls 0 <= current_waypoint <
\* len(waypoints); a tick leaves the index or moves it to
\* (index + 1) mod len(waypoints), so the last waypoint wraps to 0.
C9_WaypointIndexInRange ==
    Len(waypoints) > 0 =>
        /\ 0 <= npcs[1].current_waypoint
        /\ npcs[1].current_waypoint < Len(waypoints)
        /\ last.op = "npc_update" =>
             \/ npcs[1].current_waypoint = last.pre.current_waypoint
             \/ npcs[1].current_waypoint
                  = (last.pre.current_waypoint + 1) % Len(waypoints)

\* C9 witness: the car reached the last of three waypoints and the index
\* wrapped to 0
C9_WrappedToZero ==
    /\ last.op = "npc_update"
    /\ Len(waypoints) = 3
    /\ last.pre.current_waypoint = 2
    /\ npcs[1].current_waypoint = 0

\* C10: the ranking's progress metric counts laps for the AI cars too
\* (lap_count * waypoint_count + advancement along the waypoints), so an AI
\* car's progress never decreases at the moment its waypoint index advances,
\* the advance from the last waypoint back to index 0 included.
C10_ProgressNeverDropsOnAdvance ==
    (/\ last.op = "npc_update"
     /\ npcs[1].current_waypoint # last.pre.current_waypoint) =>
        NPCGetProgress(npcs[1], waypoints)
            >= NPCGetProgress(last.pre, waypoints)

\* C15: with an empty waypoint list NPCCar.update raises no error and leaves
\* position, heading, speed and current_waypoint unchanged (only prev_x is
\* set to x), and get_progress returns 0.
C15_EmptyWaypointsNoOp ==
    (last.op = "npc_update" /\ Len(waypoints) = 0) =>
        /\ npcs[1].x = last.pre.x
        /\ npcs[1].y = last.pre.y
        /\ npcs[1].angle = last.pre.angle
        /\ npcs[1].velocity = last.pre.velocity
        /\ npcs[1].current_waypoint = last.pre.current_waypoint
        /\ npcs[1].prev_x = last.pre.x
        /\ NPCGetProgress(npcs[1], waypoints) = 0
        /\ NPCGetProgress(last.pre, waypoints) = 0

\* C15 witness: a moving car whose prev_x differed from x was updated with
\* no waypoints and only prev_x changed
C15_OnlyPrevXSet ==
    /\ last.op = "npc_update"
    /\ Len(waypoints) = 0
    /\ last.pre.velocity # 0
    /\ last.pre.prev_x # last.pre.x
    /\ npcs[1] = [last.pre EXCEPT !.prev_x = last.pre.x]
----------------------------------------------------------------------------
(* The AI controller's angle to the waypoint, for any offset and heading *)

\* offsets of the waypoint from the car, in position units
AngleOffsets == { -1000, -1, 0, 1, 1000 }

\* headings in 1/2 degree: the car starts at 0 and turns by at most 2.5
\* degrees a tick, in either direction, without any wrap of self.angle
AngleHeadings == { 0, 5, 90, 180, -180, 270, 360, -360, 540, 720, -725, -1450 }

InitAngle ==
    /\ car = NewCar(0, 0, 0)
    /\ npcs = <<>>
    /\ waypoints = <<>>
    /\ game = [track_index |-> 0]
    /\ last = NoOp
    /\ steps = 0

\* npc_car.py lines 65-70
DoAngleDiff ==
    \E dx \in AngleOffsets, dy \in AngleOffsets, h \in AngleHeadings :
        LET angle        == h * (AngleScale \div 2)
            target_angle == TargetAngle(dx, dy)
        IN  /\ steps = 0
            /\ last' = [op |-> "angle_diff", dx |-> dx, dy |-> dy,
                        angle |-> angle, target_angle |-> target_angle,
                        angle_diff |-> AngleDiff(target_angle, angle)]
            /\ steps' = 1
            /\ UNCHANGED <<car, npcs, waypoints, game>>

NextAngle == DoAngleDiff

SpecAngle == InitAngle /\ [][NextAngle]_vars

Congruent360(a, b) == (a - b) % (360 * AngleScale) = 0

\* the target is exactly opposite the heading
TargetOpposite ==
    Congruent360(last.target_angle - last.angle, 180 * AngleScale)

\* C14 as stated: for every heading and every target angle the computed
\* angle_diff is congruent to (target_angle - heading) modulo 360 and lies in
\* (-180, +180]; a target exactly opposite the heading gives +180, never -180.
C14_HalfOpenBelow ==
    last.op = "angle_diff" =>
        /\ Congruent360(last.angle_diff, last.target_angle - last.angle)
        /\ -180 * AngleScale < last.angle_diff
        /\ last.angle_diff <= 180 * AngleScale

\* C14 amended: the computed angle_diff is
\* ((target_angle - heading + 180) mod 360) - 180, so it is congruent to
\* (target_angle - heading) modulo 360 and lies in [-180, +180); a target
\* exactly opposite the heading gives -180, never +180.
C14_HalfOpenAbove ==
    last.op = "angle_diff" =>
        /\ Congruent360(last.angle_diff, last.target_angle - last.angle)
        /\ -180 * AngleScale <= last.angle_diff
        /\ last.angle_diff < 180 * AngleScale
        /\ TargetOpposite => last.angle_diff = -180 * AngleScale

\* C14 witness: a car heading right (90) with the waypoint exactly to its
\* left (target -90) got angle_diff -180
C14_OppositeGaveMinus180 ==
    /\ last.op = "angle_diff"
    /\ last.angle = 90 * AngleScale
    /\ last.target_angle = -90 * AngleScale
    /\ last.angle_diff = -180 * AngleScale
----------------------------------------------------------------------------
(* Track: the tile grid, src/src/track.py *)

GRASS == 0
ROAD_V == 1
ROAD_H == 2
CORNER_TL == 3
CORNER_TR == 4
CORNER_BL == 5
CORNER_BR == 6

ROAD_TILES == { ROAD_V, ROAD_H, CORNER_TL, CORNER_TR, CORNER_BL, CORNER_BR }

\* _create_oval_track / _create_figure8_track: rows from the top, 1-based
track_data(track_index) ==
    LET G == GRASS  V == ROAD_V  H == ROAD_H
        TL == CORNER_TL  TR == CORNER_TR  BL == CORNER_BL  BR == CORNER_BR
    IN  IF track_index = 0
        THEN << << G,  G,  G,  G,  G,  G,  G,  G,  G,  G,  G,  G >>,
                << G,  G,  TL, H,  H,  H,  H,  H,  H,  TR, G,  G >>,
                << G,  G,  V,  G,  G,  G,  G,  G,  G,  V,  G,  G >>,
                << G,  G,  V,  G,  G,  G,  G,  G,  G,  V,  G,  G >>,
                << G,  G,  V,  G,  G,  G,  G,  G,  G,  V,  G,  G >>,
                << G,  G,  V,  G,  G,  G,  G,  G,  G,  V,  G,  G >>,
                << G,  G,  V,  G,  G,  G,  G,  G,  G,  V,  G,  G >>,
                << G,  G,  V,  G,  G,  G,  G,  G,  G,  V,  G,  G >>,
                << G,  G,  BL, H,  H,  H,  H,  H,  H,  BR, G,  G >>,
                << G,  G,  G,  G,  G,  G,  G,  G,  G,  G,  G,  G >> >>
        ELSE << << G,  G,  G,  G,  G,  G,  G,  G,  G,  G,  G,  G,  G,  G >>,
                << G,  TL, H,  H,  TR, G,  G,  G,  G,  TL, H,  H,  TR, G >>,
                << G,  V,  G,  G,  V,  G,  G,  G,  G,  V,  G,  G,  V,  G >>,
                << G,  V,  G,  G,  BL, H,  H,  H,  H,  BR, G,  G,  V,  G >>,
                << G,  V,  G,  G,  G,  G,  G,  G,  G,  G,  G,  G,  V,  G >>,
                << G,  V,  G,  G,  G,  G,  G,  G,  G,  G,  G,  G,  V,  G >>,
                << G,  V,  G,  G,  TL, H,  H,  H,  H,  TR, G,  G,  V,  G >>,
                << G,  V,  G,  G,  V,  G,  G,  G,  G,  V,  G,  G,  V,  G >>,
                << G,  BL, H,  H,  BR, G,  G,  G,  G,  BL, H,  H,  BR, G >>,
                << G,  G,  G,  G,  G,  G,  G,  G,  G,  G,  G,  G,  G,  G >> >>

height(track_index) == Len(track_data(track_index))
width(track_index) == Len(track_data(track_index)[1])

\* get_tile_at without the lower bounds of line 148: a negative index then
\* counts from the end of the list, as Python's indexing does
GetTileAtFromTheEnd(track_index, x, y) ==
    LET col == x \div (tile_size * PosScale)
        row == y \div (tile_size * PosScale)
        w   == width(track_index)
        h   == height(track_index)
    IN  IF col >= w \/ row >= h \/ col < -w \/ row < -h
        THEN GRASS
        ELSE track_data(track_index)[((row + h) % h) + 1][((col + w) % w) + 1]

\* get_tile_at: x // tile_size rounds down, also below zero
GetTileAt(track_index, x, y) ==
    LET col == x \div (tile_size * PosScale)
        row == y \div (tile_size * PosScale)
    IN  IF col < 0 \/ col >= width(track_index)
           \/ row < 0 \/ row >= height(track_index)
        THEN GRASS
        ELSE track_data(track_index)[row + 1][col + 1]

IsOnRoad(track_index, x, y) == GetTileAt(track_index, x, y) \in ROAD_TILES

\* get_world_size
GetWorldSize(track_index) ==
    << width(track_index) * tile_size * PosScale,
       height(track_index) * tile_size * PosScale >>

\* get_start_position / get_start_angle
GetStartPosition(track_index) ==
    << ((IF track_index = 0 THEN 6 ELSE 2) * tile_size + tile_size \div 2)
           * PosScale,
       (8 * tile_size + tile_size \div 2) * PosScale >>

GetStartAngle(track_index) == 90 * AngleScale

\* world coordinates in position units: far outside, around the grid's
\* edges and around tile edges
TileXs ==
    { -100000000, -3000, -1281, -1280, -1, 0, 1279, 12800, 32000, 38399,
      38400, 115199, 115200, 127999, 153599, 153600, 179199, 179200,
      100000000 }
TileYs ==
    { -100000000, -3000, -1, 0, 12800, 25600, 38400, 102400, 115199, 115200,
      127999, 128000, 100000000 }

InitTile ==
    /\ game \in [track_index : TrackIndexes]
    /\ car = NewCar(0, 0, 0)
    /\ npcs = <<>>
    /\ waypoints = <<>>
    /\ last = NoOp
    /\ steps = 0

DoIsOnRoad ==
    \E x \in TileXs, y \in TileYs :
        /\ steps = 0
        /\ last' = [op |-> "is_on_road", x |-> x, y |-> y,
                    result |-> IsOnRoad(game.track_index, x, y)]
        /\ steps' = 1
        /\ UNCHANGED <<car, npcs, waypoints, game>>

NextTile == DoIsOnRoad

SpecTile == InitTile /\ [][NextTile]_vars

\* the cell (row r, column c, from 0) of the grid that holds (x, y)
InCell(x, y, r, c) ==
    /\ c * tile_size * PosScale <= x
    /\ x < (c + 1) * tile_size * PosScale
    /\ r * tile_size * PosScale <= y
    /\ y < (r + 1) * tile_size * PosScale

----------------------------------------------------------------------------
(* Game: src/main.py, with the menu of src/src/ui/menu.py and the races   *)
(* table of src/src/data/database.py.                                      *)
(*                                                                         *)
(* game is a record of the fields of Game, of its Menu and of its          *)
(* Database:                                                               *)
(*   running, game_state, track_index, npc_count, lap_count,               *)
(*   player_position, lap_start_time, current_lap_time, best_lap_time,     *)
(*   last_lap_time, selected_car_type, selected_car_color      (Game)      *)
(*   menu = [selected_index, selected_track, selected_car_type,            *)
(*           selected_car_color]                               (Menu)      *)
(*   races: the rows of the races table, oldest first          (Database)  *)
(*   now: the value time.time() returns, in clock units                    *)
(*   exited: run() has left its loop                                       *)
(*   player_waypoint: the waypoint the player's progress is measured to    *)
(* Operations take and return a record [car, npcs, waypoints, game].       *)
(***************************************************************************)

\* Python's None for best_lap_time and last_lap_time; times are >= 0
None == -1

MENU == "menu"
TRACK_SELECT == "track_select"
CAR_TYPE_SELECT == "car_type_select"
CAR_COLOR_SELECT == "car_color_select"
PLAYING == "playing"
PAUSED == "paused"

main_options == << "Play", "Select Track", "Select Car", "Quit" >>
pause_options == << "Resume", "Restart", "Main Menu" >>
track_names == << "Oval", "Figure-8" >>
\* len(CAR_TYPES) and len(CAR_COLORS), src/src/car_stats.py
NumCarTypes == 6
NumCarColors == 5

\* track.waypoints: main.py reads it and track.py does not define it; the
\* ordered closed loop of section 3 of the specification, in pixels, in the
\* direction the cars start in (decreasing x along the bottom straight)
TrackWaypoints(track_index) ==
    ScaleWaypoints(
        IF track_index = 0
        THEN << <<448, 1088>>, <<320, 640>>, <<768, 192>>, <<1216, 640>>,
                <<1000, 1088>> >>
        ELSE << <<192, 960>>, <<192, 320>>, <<512, 256>>, <<1152, 448>>,
                <<1600, 640>>, <<1152, 1088>>, <<576, 832>> >>)

\* track.get_npc_start_positions(count): main.py calls it and track.py does
\* not define it; staggered places behind the player's start ("Spawn NPC
\* cars at staggered positions"), each with waypoint index 0
GetNpcStartPositions(track_index, count) ==
    [i \in 1..count |->
        << GetStartPosition(track_index)[1] + 60 * i * PosScale,
           GetStartPosition(track_index)[2]
               + (IF i % 2 = 0 THEN 30 ELSE -30) * PosScale,
           0 >>]

\* _spawn_npcs
SpawnNpcs(track_index, count) ==
    LET npc_positions == GetNpcStartPositions(track_index, count)
    IN  [i \in 1..count |->
            NewNPC(npc_positions[i][1], npc_positions[i][2], i - 1,
                   npc_positions[i][3])]

\* player_car.get_progress(waypoints): main.py calls it and car.py does not
\* define it; the fractional advancement of section 4.5 of the specification
\* toward the player's target waypoint, in 1/max_dist waypoint
CarGetProgress(c, wps, player_waypoint) ==
    IF Len(wps) = 0 THEN 0
    ELSE LET target == wps[player_waypoint + 1]
             dx     == target[1] - c.x
             dy     == target[2] - c.y
             dist   == Sqrt(dx * dx + dy * dy)
         IN  player_waypoint * max_dist + (max_dist - Min(dist, max_dist))

TrackName(track_index) == IF track_index = 0 THEN "Oval" ELSE "Figure-8"

\* Database.save_race as _save_race calls it: one more row
SaveRace(g) ==
    [g EXCEPT !.races = Append(@, [track |-> TrackName(g.track_index),
                                   laps |-> g.lap_count,
                                   best_lap_time |-> g.best_lap_time])]

SetMin(S) == CHOOSE m \in S : \A n \in S : m <= n

\* Database.get_best_lap_time: MIN over the track's rows with a time, and
\* None when there is no such row or the minimum is 0
GetBestLapTime(races, track) ==
    LET times == { races[k].best_lap_time : k \in
                     { k \in 1..Len(races) :
                         /\ races[k].track = track
                         /\ races[k].best_lap_time # None } }
    IN  IF times = {} THEN None
        ELSE IF SetMin(times) = 0 THEN None ELSE SetMin(times)

\* _load_best_time
LoadBestTime(g) ==
    [g EXCEPT !.best_lap_time =
        GetBestLapTime(g.races, TrackName(g.track_index))]

\* _load_track without the reset of lines 119-122
LoadTrackKeepLaps(s) ==
    LET t == s.game.track_index
    IN  [car       |-> NewCar(GetStartPosition(t)[1], GetStartPosition(t)[2],
                              GetStartAngle(t)),
         npcs      |-> SpawnNpcs(t, s.game.npc_count),
         waypoints |-> TrackWaypoints(t),
         game      |-> LoadBestTime([s.game EXCEPT !.player_waypoint = 0])]

\* _load_track
LoadTrack(s) ==
    LET t == s.game.track_index
    IN  [car       |-> NewCar(GetStartPosition(t)[1], GetStartPosition(t)[2],
                              GetStartAngle(t)),
         npcs      |-> SpawnNpcs(t, s.game.npc_count),
         waypoints |-> TrackWaypoints(t),
         game      |-> LoadBestTime(
                          [s.game EXCEPT !.lap_count = 0,
                                         !.lap_start_time = s.game.now,
                                         !.current_lap_time = 0,
                                         !.last_lap_time = None,
                                         !.player_waypoint = 0])]

\* switch_track
SwitchTrack(s) ==
    LoadTrack([s EXCEPT !.game.track_index = (@ + 1) % 2])

\* reset_race without the save of lines 225-226
ResetRaceNoSave(s) == LoadTrack(s)

\* reset_race
ResetRace(s) ==
    IF s.game.lap_count > 0
    THEN LoadTrack([s EXCEPT !.game = SaveRace(@)])
    ELSE LoadTrack(s)

\* cycle_npc_count
CycleNpcCount(s) ==
    LET n == (s.game.npc_count + 1) % 6
    IN  [s EXCEPT !.game.npc_count = n,
                  !.npcs = SpawnNpcs(s.game.track_index, n)]

\* _update_player_car
UpdatePlayerCar(s) ==
    LET t == s.game.track_index
    IN  [s EXCEPT !.car = NewCar(GetStartPosition(t)[1],
                                 GetStartPosition(t)[2], GetStartAngle(t))]

\* Menu.handle_input: an actions dict with none of its keys set
NoActions ==
    [quit |-> FALSE, track_changed |-> None, car_changed |-> FALSE,
     start_race |-> FALSE, restart |-> FALSE, save_race |-> FALSE]

MenuResult(state, actions, menu) ==
    [state |-> state, actions |-> actions, menu |-> menu]

\* Menu._handle_main_menu
HandleMainMenu(m, key) ==
    IF key = "UP"
    THEN MenuResult(MENU, NoActions,
            [m EXCEPT !.selected_index = (@ - 1) % Len(main_options)])
    ELSE IF key = "DOWN"
    THEN MenuResult(MENU, NoActions,
            [m EXCEPT !.selected_index = (@ + 1) % Len(main_options)])
    ELSE IF key = "RETURN"
    THEN LET option == main_options[m.selected_index + 1]
         IN  IF option = "Play"
             THEN MenuResult(PLAYING, [NoActions EXCEPT !.start_race = TRUE], m)
             ELSE IF option = "Select Track"
             THEN MenuResult(TRACK_SELECT, NoActions,
                     [m EXCEPT !.selected_index = m.selected_track])
             ELSE IF option = "Select Car"
             THEN MenuResult(CAR_TYPE_SELECT, NoActions,
                     [m EXCEPT !.selected_index = m.selected_car_type - 1])
             ELSE MenuResult(MENU, [NoActions EXCEPT !.quit = TRUE], m)
    ELSE MenuResult(MENU, NoActions, m)

\* Menu._handle_track_select
HandleTrackSelect(m, key) ==
    IF key \in {"UP", "LEFT"}
    THEN MenuResult(TRACK_SELECT, NoActions,
            [m EXCEPT !.selected_index = (@ - 1) % Len(track_names)])
    ELSE IF key \in {"DOWN", "RIGHT"}
    THEN MenuResult(TRACK_SELECT, NoActions,
            [m EXCEPT !.selected_index = (@ + 1) % Len(track_names)])
    ELSE IF key = "RETURN"
    THEN MenuResult(MENU,
            [NoActions EXCEPT !.track_changed = m.selected_index],
            [m EXCEPT !.selected_track = m.selected_index,
                      !.selected_index = 0])
    ELSE IF key = "ESCAPE"
    THEN MenuResult(MENU, NoActions, [m EXCEPT !.selected_index = 0])
    ELSE MenuResult(TRACK_SELECT, NoActions, m)

\* Menu._handle_car_type_select without line 133: RETURN opens the colour
\* list with the index of the type list
HandleCarTypeSelectKeepsIndex(m, key) ==
    IF key \in {"UP", "LEFT"}
    THEN MenuResult(CAR_TYPE_SELECT, NoActions,
            [m EXCEPT !.selected_index = (@ - 1) % NumCarTypes])
    ELSE IF key \in {"DOWN", "RIGHT"}
    THEN MenuResult(CAR_TYPE_SELECT, NoActions,
            [m EXCEPT !.selected_index = (@ + 1) % NumCarTypes])
    ELSE IF key = "RETURN"
    THEN MenuResult(CAR_COLOR_SELECT, NoActions,
            [m EXCEPT !.selected_car_type = m.selected_index + 1])
    ELSE IF key = "ESCAPE"
    THEN MenuResult(MENU, NoActions, [m EXCEPT !.selected_index = 0])
    ELSE MenuResult(CAR_TYPE_SELECT, NoActions, m)

\* Menu._handle_car_type_select
HandleCarTypeSelect(m, key) ==
    IF key \in {"UP", "LEFT"}
    THEN MenuResult(CAR_TYPE_SELECT, NoActions,
            [m EXCEPT !.selected_index = (@ - 1) % NumCarTypes])
    ELSE IF key \in {"DOWN", "RIGHT"}
    THEN MenuResult(CAR_TYPE_SELECT, NoActions,
            [m EXCEPT !.selected_index = (@ + 1) % NumCarTypes])
    ELSE IF key = "RETURN"
    THEN MenuResult(CAR_COLOR_SELECT, NoActions,
            [m EXCEPT !.selected_car_type = m.selected_index + 1,
                      !.selected_index = m.selected_car_color])
    ELSE IF key = "ESCAPE"
    THEN MenuResult(MENU, NoActions, [m EXCEPT !.selected_index = 0])
    ELSE MenuResult(CAR_TYPE_SELECT, NoActions, m)

\* Menu._handle_car_color_select
HandleCarColorSelect(m, key) ==
    IF key \in {"UP", "LEFT"}
    THEN MenuResult(CAR_COLOR_SELECT, NoActions,
            [m EXCEPT !.selected_index = (@ - 1) % NumCarColors])
    ELSE IF key \in {"DOWN", "RIGHT"}
    THEN MenuResult(CAR_COLOR_SELECT, NoActions,
            [m EXCEPT !.selected_index = (@ + 1) % NumCarColors])
    ELSE IF key = "RETURN"
    THEN MenuResult(MENU, [NoActions EXCEPT !.car_changed = TRUE],
            [m EXCEPT !.selected_car_color = m.selected_index,
                      !.selected_index = 0])
    ELSE IF key = "ESCAPE"
    THEN MenuResult(CAR_TYPE_SELECT, NoActions,
            [m EXCEPT !.selected_index = m.selected_car_type - 1])
    ELSE MenuResult(CAR_COLOR_SELECT, NoActions, m)

\* Menu._handle_pause_menu
HandlePauseMenu(m, key) ==
    IF key = "UP"
    THEN MenuResult(PAUSED, NoActions,
            [m EXCEPT !.selected_index = (@ - 1) % Len(pause_options)])
    ELSE IF key = "DOWN"
    THEN MenuResult(PAUSED, NoActions,
            [m EXCEPT !.selected_index = (@ + 1) % Len(pause_options)])
    ELSE IF key = "RETURN"
    THEN LET option == pause_options[m.selected_index + 1]
             m0     == [m EXCEPT !.selected_index = 0]
         IN  IF option = "Resume" THEN MenuResult(PLAYING, NoActions, m0)
             ELSE IF option = "Restart"
             THEN MenuResult(PLAYING, [NoActions EXCEPT !.restart = TRUE], m0)
             ELSE MenuResult(MENU, [NoActions EXCEPT !.save_race = TRUE], m0)
    ELSE IF key = "ESCAPE"
    THEN MenuResult(PLAYING, NoActions, [m EXCEPT !.selected_index = 0])
    ELSE MenuResult(PAUSED, NoActions, m)

\* Menu.handle_input for a KEYDOWN event
MenuHandleInput(m, key, state) ==
    IF state = MENU THEN HandleMainMenu(m, key)
    ELSE IF state = TRACK_SELECT THEN HandleTrackSelect(m, key)
    ELSE IF state = CAR_TYPE_SELECT THEN HandleCarTypeSelect(m, key)
    ELSE IF state = CAR_COLOR_SELECT THEN HandleCarColorSelect(m, key)
    ELSE IF state = PAUSED THEN HandlePauseMenu(m, key)
    ELSE MenuResult(state, NoActions, m)

\* _handle_menu_actions, lines 189-191
ActTrackChanged(s, a) ==
    IF a.track_changed # None
    THEN LoadTrack([s EXCEPT !.game.track_index = a.track_changed])
    ELSE s

\* _handle_menu_actions, lines 193-197
ActCarChanged(s, r) ==
    IF r.actions.car_changed
    THEN UpdatePlayerCar(
            [s EXCEPT
               !.game.selected_car_type = r.menu.selected_car_type,
               !.game.selected_car_color = r.menu.selected_car_color])
    ELSE s

\* _handle_menu_actions, lines 199-200
ActStartRace(s, a) == IF a.start_race THEN LoadTrack(s) ELSE s

\* _handle_menu_actions, lines 202-203
ActRestart(s, a) == IF a.restart THEN ResetRace(s) ELSE s

\* _handle_menu_actions, lines 205-207
ActSaveRace(s, a) ==
    IF a.save_race /\ s.game.lap_count > 0
    THEN [s EXCEPT !.game = [SaveRace(@) EXCEPT !.lap_count = 0]]
    ELSE s

\* _handle_menu_actions, after Menu.handle_input changed the menu to r.menu
HandleMenuActions(s, r) ==
    IF r.actions.quit
    THEN [s EXCEPT !.game.menu = r.menu, !.game.running = FALSE]
    ELSE [ActSaveRace(
            ActRestart(
              ActStartRace(
                ActCarChanged(
                  ActTrackChanged([s EXCEPT !.game.menu = r.menu], r.actions),
                  r),
                r.actions),
              r.actions),
            r.actions)
          EXCEPT !.game.game_state = r.state]

\* handle_events, one KEYDOWN event in the PLAYING state (lines 172-181)
HandlePlayingKey(s, key) ==
    IF key = "ESCAPE"
    THEN [s EXCEPT !.game.game_state = PAUSED,
                   !.game.menu.selected_index = 0]
    ELSE IF key = "t" THEN SwitchTrack(s)
    ELSE IF key = "n" THEN CycleNpcCount(s)
    ELSE IF key = "r" THEN ResetRace(s)
    ELSE s

\* handle_input: one held key and the operation it calls
HeldAccelerate(c, keys, key) == IF key \in keys THEN Accelerate(c) ELSE c
HeldBrake(c, keys, key) == IF key \in keys THEN Brake(c) ELSE c
HeldRotateLeft(c, keys, key) == IF key \in keys THEN RotateLeft(c) ELSE c
HeldRotateRight(c, keys, key) == IF key \in keys THEN RotateRight(c) ELSE c

\* handle_input: the held keys, WASD first and the arrow keys after
HandleInput(c, keys) ==
    HeldRotateRight(
      HeldRotateLeft(
        HeldBrake(
          HeldAccelerate(
            HeldRotateRight(
              HeldRotateLeft(
                HeldBrake(
                  HeldAccelerate(c, keys, "w"),
                  keys, "s"),
                keys, "a"),
              keys, "d"),
            keys, "UP"),
          keys, "DOWN"),
        keys, "LEFT"),
      keys, "RIGHT")

\* _update_positions counting the AI cars level with the player too
UpdatePositionsAtOrAbove(s) ==
    LET player_progress ==
            s.game.lap_count * Len(s.waypoints) * max_dist
                + CarGetProgress(s.car, s.waypoints, s.game.player_waypoint)
    IN  1 + Cardinality({ k \in 1..Len(s.npcs) :
                NPCGetProgress(s.npcs[k], s.waypoints) >= player_progress })

\* _update_positions: the value it stores in player_position
UpdatePositions(s) ==
    LET player_progress ==
            s.game.lap_count * Len(s.waypoints) * max_dist
                + CarGetProgress(s.car, s.waypoints, s.game.player_waypoint)
    IN  1 + Cardinality({ k \in 1..Len(s.npcs) :
                NPCGetProgress(s.npcs[k], s.waypoints) > player_progress })

\* update, lines 297-312, without the comparison with the best time
LapTimingKeepBest(s) ==
    LET g  == [s.game EXCEPT
                 !.current_lap_time = s.game.now - s.game.lap_start_time]
    IN  IF CheckFinishLine(g.track_index, s.car.prev_x, s.car.x, s.car.y)
        THEN [s EXCEPT !.game =
                [g EXCEPT
                    !.lap_count = @ + 1,
                    !.last_lap_time = g.current_lap_time,
                    !.best_lap_time =
                        IF @ = None THEN g.current_lap_time ELSE @,
                    !.lap_start_time = g.now]]
        ELSE [s EXCEPT !.game = g]

\* update, lines 297-312: the lap time and the lap completion
LapTiming(s) ==
    LET g  == [s.game EXCEPT
                 !.current_lap_time = s.game.now - s.game.lap_start_time]
    IN  IF CheckFinishLine(g.track_index, s.car.prev_x, s.car.x, s.car.y)
        THEN [s EXCEPT !.game =
                [g EXCEPT
                    !.lap_count = @ + 1,
                    !.last_lap_time = g.current_lap_time,
                    !.best_lap_time =
                        IF @ = None \/ g.current_lap_time < @
                        THEN g.current_lap_time ELSE @,
                    !.lap_start_time = g.now]]
        ELSE [s EXCEPT !.game = g]

\* update, lines 278-283: the player's step after the input
StepPlayer(s, c) ==
    [s EXCEPT !.car =
        Update(c, IsOnRoad(s.game.track_index, c.x, c.y),
               GetWorldSize(s.game.track_index)[1],
               GetWorldSize(s.game.track_index)[2])]

\* update, lines 285-289: the AI cars' steps
StepNpcs(s) ==
    [s EXCEPT !.npcs =
        [k \in 1..Len(s.npcs) |->
            NPCUpdate(s.npcs[k], s.waypoints,
                      IsOnRoad(s.game.track_index, s.npcs[k].x, s.npcs[k].y))]]

SetCars(s, cars) ==
    [s EXCEPT !.car = cars[1], !.npcs = SubSeq(cars, 2, Len(cars))]

\* update, line 292
CollideCars(s) == SetCars(s, HandleCollisions(<<s.car>> \o s.npcs))

\* update, lines 276-292: input, the player's step, the AI cars' steps and
\* the collisions
MoveCars(s, keys) ==
    CollideCars(StepNpcs(StepPlayer(s, HandleInput(s.car, keys))))

\* update, line 295
RankCars(s) == [s EXCEPT !.game.player_position = UpdatePositions(s)]

\* update
GameUpdate(s, keys) ==
    IF s.game.game_state # PLAYING THEN s
    ELSE LapTiming(RankCars(MoveCars(s, keys)))

----------------------------------------------------------------------------
(* The game loop: events, update and exit of Game.run *)

MaxGameSteps == 3

\* the races table the program finds when it starts: empty, or with a race
\* of an earlier session on the oval, best lap 20
StoredRaces ==
    { << >>,
      << [track |-> "Oval", laps |-> 2, best_lap_time |-> 20] >> }

\* Game.__init__ (the track loaded, the menu shown), at clock 0
NewGame(races) ==
    LoadTrack(
        [car       |-> NewCar(0, 0, 0),
         npcs      |-> << >>,
         waypoints |-> << >>,
         game      |->
            [running |-> TRUE, exited |-> FALSE, game_state |-> MENU,
             track_index |-> 0, npc_count |-> 3, lap_count |-> 0,
             player_position |-> 1, lap_start_time |-> 0,
             current_lap_time |-> 0, best_lap_time |-> None,
             last_lap_time |-> None,
             selected_car_type |-> 1, selected_car_color |-> 0,
             menu |-> [selected_index |-> 0, selected_track |-> 0,
                       selected_car_type |-> 1, selected_car_color |-> 0],
             races |-> races, now |-> 0, player_waypoint |-> 0]])

\* Situations of a race on the oval that the loop reaches from NewGame by
\* Play, N pressed until two AI cars are left, and driving:
\* the player's x relative to the finish line (pixels) and speed (1/100
\* pixel per tick), heading 90 on the bottom straight: about to cross the
\* line forwards, about to cross it backwards, at rest on the start
PlayerSituations == { <<2, 400>>, <<-2, -400>>, <<-64, 0>> }
\* laps counted so far in this race; the first lap took 40
LapSituations == { 0, 1 }
\* time since the lap timer was last reset
ElapsedSituations == { 10, 30 }
\* the first AI car: on its start place; round the track near waypoint 2;
\* 30 pixels behind the player
NpcSituations == { "start", "ahead", "touching" }
\* the clock when the situation is reached
SituationClock == 100

Racing(races, p, laps, elapsed, n) ==
    LET s0   == NewGame(races)
        fx   == finish_line_x(0)
        c    == [NewCar(fx + p[1] * PosScale, GetStartPosition(0)[2],
                        GetStartAngle(0))
                    EXCEPT !.velocity = p[2] * (VelScale \div 100)]
        two  == SpawnNpcs(0, 2)
        npc1 == IF n = "ahead"
                THEN [two[1] EXCEPT !.x = 700 * PosScale, !.y = 250 * PosScale,
                                    !.prev_x = 700 * PosScale,
                                    !.angle = -90 * AngleScale,
                                    !.velocity = 3 * VelScale,
                                    !.current_waypoint = 2]
                ELSE IF n = "touching"
                THEN [two[1] EXCEPT !.x = c.x + 30 * PosScale, !.y = c.y,
                                    !.prev_x = c.x + 30 * PosScale,
                                    !.angle = 90 * AngleScale]
                ELSE two[1]
    IN  [s0 EXCEPT
            !.car = c,
            !.npcs = << npc1, two[2] >>,
            !.game = [@ EXCEPT
                !.game_state = PLAYING,
                !.npc_count = 2,
                !.lap_count = laps,
                !.now = SituationClock,
                !.lap_start_time = SituationClock - elapsed,
                !.current_lap_time = elapsed,
                !.last_lap_time = IF laps = 0 THEN None ELSE 40,
                !.best_lap_time =
                    IF laps = 0 THEN s0.game.best_lap_time
                    ELSE IF s0.game.best_lap_time = None THEN 40
                    ELSE Min(s0.game.best_lap_time, 40)]]

St == [car |-> car, npcs |-> npcs, waypoints |-> waypoints, game |-> game]

Starts(s) ==
    /\ car = s.car
    /\ npcs = s.npcs
    /\ waypoints = s.waypoints
    /\ game = s.game

InitGame ==
    /\ \E races \in StoredRaces :
        \/ Starts(NewGame(races))
        \/ \E p \in PlayerSituations, laps \in LapSituations,
              elapsed \in ElapsedSituations, n \in NpcSituations :
                Starts(Racing(races, p, laps, elapsed, n))
    /\ last = NoOp
    /\ steps = 0

\* keys whose KEYDOWN event reaches handle_events
MenuKeys == { "UP", "DOWN", "LEFT", "RIGHT", "RETURN", "ESCAPE" }
PlayingKeys == { "ESCAPE", "t", "n", "r" }

\* keys held down during a frame
HeldKeys == { {}, {"w", "UP"}, {"s"} }

\* clock units that pass during a frame
FrameTimes == { 1 }

Becomes(s, op, input) ==
    /\ car' = s.car
    /\ npcs' = s.npcs
    /\ waypoints' = s.waypoints
    /\ game' = s.game
    /\ last' = [op |-> op, pre |-> St, input |-> input]
    /\ steps' = steps + 1

\* handle_events: one KEYDOWN event
DoKeyDown ==
    /\ steps < MaxGameSteps
    /\ game.running /\ ~game.exited
    /\ IF game.game_state # PLAYING
       THEN \E key \in MenuKeys :
              Becomes(HandleMenuActions(St,
                         MenuHandleInput(game.menu, key, game.game_state)),
                      "key_down", key)
       ELSE \E key \in PlayingKeys :
              Becomes(HandlePlayingKey(St, key), "key_down", key)

\* handle_events: the QUIT event (lines 160-162)
DoQuit ==
    /\ steps < MaxGameSteps
    /\ game.running /\ ~game.exited
    /\ Becomes([St EXCEPT !.game.running = FALSE], "quit", "")

\* run, lines 443-445: the loop has ended
ExitRun(s) ==
    [s EXCEPT !.game =
        [(IF @.lap_count > 0 THEN SaveRace(@) ELSE @) EXCEPT !.exited = TRUE]]

\* run, line 437: the loop goes on while running is true
EndFrame(s) == IF s.game.running THEN s ELSE ExitRun(s)

PassTime(s, dt) == [s EXCEPT !.game.now = @ + dt]

\* run: after the frame's events, update, the frame's time passes, and
\* when running is false the loop ends and the race is saved
RunFrame(s, keys, dt) == EndFrame(PassTime(GameUpdate(s, keys), dt))

DoFrame ==
    /\ steps < MaxGameSteps
    /\ ~game.exited
    /\ \E keys \in HeldKeys, dt \in FrameTimes :
         Becomes(RunFrame(St, keys, dt), "frame", keys)

NextGame ==
    \/ DoKeyDown
    \/ DoQuit
    \/ DoFrame

SpecGame == InitGame /\ [][NextGame]_vars

----------------------------------------------------------------------------
(* Properties of the game loop *)

\* the last step was a frame whose update ran (the game was PLAYING)
PlayedFrame ==
    /\ last.op = "frame"
    /\ last.pre.game.game_state = PLAYING

\* progress of AI car k and of the player with a given lap count, from the
\* cars as they stand now, in 1/max_dist waypoint
NpcProgressNow(k) == NPCGetProgress(npcs[k], waypoints)
PlayerProgressNow(lap_count) ==
    lap_count * Len(waypoints) * max_dist
        + CarGetProgress(car, waypoints, game.player_waypoint)

\* C11: after _update_positions, player_position equals 1 plus the number
\* of AI vehicles whose progress metric is strictly greater than the
\* player's (equal progress does not push the player back), hence
\* 1 <= player_position <= 1 + number of AI vehicles.  _update_positions
\* runs after the collisions and before the lap check, so the player's
\* progress is the one with the lap count the frame began with.
C11_RankCountsStrictlyAhead ==
    PlayedFrame =>
        /\ game.player_position
             = 1 + Cardinality({ k \in 1..Len(npcs) :
                     NpcProgressNow(k)
                         > PlayerProgressNow(last.pre.game.lap_count) })
        /\ 1 <= game.player_position
        /\ game.player_position <= 1 + Len(npcs)

\* C11 witness: of two AI cars one was ahead of the player and one level
\* with the player, and the player was ranked second
C11_OneAheadOneLevel ==
    /\ PlayedFrame
    /\ Len(npcs) = 2
    /\ NpcProgressNow(1) > PlayerProgressNow(last.pre.game.lap_count)
    /\ NpcProgressNow(2) = PlayerProgressNow(last.pre.game.lap_count)
    /\ game.player_position = 2

\* the frame's movement took the player over the finish line in the
\* direction that counts: from beyond the line onto or past it, inside the
\* line's y-range
CountedCrossing ==
    /\ PlayedFrame
    /\ car.prev_x > finish_line_x(game.track_index)
    /\ finish_line_x(game.track_index) >= car.x
    /\ finish_line_y1(game.track_index) <= car.y
    /\ car.y <= finish_line_y2(game.track_index)

\* C12: on every counted finish-line crossing lap_count increases by
\* exactly 1, last_lap_time becomes the time elapsed since the lap timer was
\* last reset, best_lap_time becomes min(previous best_lap_time,
\* last_lap_time) with an absent best treated as infinity, and the lap timer
\* restarts; so within a race best_lap_time never increases and
\* best_lap_time <= last_lap_time after every counted crossing.
C12_LapTimingOnCrossing ==
    /\ CountedCrossing =>
         /\ game.lap_count = last.pre.game.lap_count + 1
         /\ game.last_lap_time
              = last.pre.game.now - last.pre.game.lap_start_time
         /\ game.best_lap_time
              = (IF last.pre.game.best_lap_time = None
                 THEN game.last_lap_time
                 ELSE Min(last.pre.game.best_lap_time, game.last_lap_time))
         /\ game.lap_start_time = last.pre.game.now
         /\ game.best_lap_time <= game.last_lap_time
    /\ (PlayedFrame /\ last.pre.game.best_lap_time # None) =>
         /\ game.best_lap_time # None
         /\ game.best_lap_time <= last.pre.game.best_lap_time
    /\ game.lap_count > 0 =>
         /\ game.best_lap_time # None
         /\ game.last_lap_time # None
         /\ game.best_lap_time <= game.last_lap_time

\* C12 witness: a lap of 10 was counted against a best of 20, which became
\* 10
C12_BestImproved ==
    /\ CountedCrossing
    /\ last.pre.game.best_lap_time = 20
    /\ game.last_lap_time = 10
    /\ game.best_lap_time = 10
    /\ game.lap_count = last.pre.game.lap_count + 1

\* the last step was an event that loads a track: T or R while playing,
\* Restart in the pause menu, Play in the main menu, a track chosen in the
\* track menu
TrackLoaded ==
    /\ last.op = "key_down"
    /\ \/ /\ last.pre.game.game_state = PLAYING
          /\ last.input \in {"t", "r"}
       \/ /\ last.pre.game.game_state = PAUSED
          /\ last.input = "RETURN"
          /\ pause_options[last.pre.game.menu.selected_index + 1] = "Restart"
       \/ /\ last.pre.game.game_state = MENU
          /\ last.input = "RETURN"
          /\ main_options[last.pre.game.menu.selected_index + 1] = "Play"
       \/ /\ last.pre.game.game_state = TRACK_SELECT
          /\ last.input = "RETURN"

\* the last step was Main Menu chosen in the pause menu
ReturnedToMainMenu ==
    /\ last.op = "key_down"
    /\ last.pre.game.game_state = PAUSED
    /\ last.input = "RETURN"
    /\ pause_options[last.pre.game.menu.selected_index + 1] = "Main Menu"

\* C13: lap_count is a non-negative integer that never decreases during
\* racing ticks: a tick changes it by 0 or +1 only, crossing the finish line
\* in the increasing-x direction leaves it unchanged, and it returns to 0
\* only through a track load, a race reset or the save on returning to the
\* main menu.
C13_LapCountMonotone ==
    /\ game.lap_count >= 0
    /\ last.op = "frame" =>
         /\ game.lap_count \in { last.pre.game.lap_count,
                                 last.pre.game.lap_count + 1 }
         /\ car.x > car.prev_x => game.lap_count = last.pre.game.lap_count
    /\ last.op \in {"key_down", "quit"} =>
         /\ game.lap_count <= last.pre.game.lap_count
         /\ game.lap_count < last.pre.game.lap_count =>
              /\ game.lap_count = 0
              /\ TrackLoaded \/ ReturnedToMainMenu

\* C13 witness: the player, one lap counted, backed over the finish line
\* inside its y-range and the lap count stayed 1
C13_BackedOverTheLine ==
    /\ PlayedFrame
    /\ car.prev_x < finish_line_x(game.track_index)
    /\ car.x > finish_line_x(game.track_index)
    /\ finish_line_y1(game.track_index) <= car.y
    /\ car.y <= finish_line_y2(game.track_index)
    /\ last.pre.game.lap_count = 1
    /\ game.lap_count = 1

\* C18: after any track load (switch_track, a track chosen in the menu,
\* starting a race, reset_race) the player vehicle is at the new track's
\* start position with the track's start heading, speed 0 and prev_x equal
\* to x, the AI vehicles are respawned (npc_count cars at rest on their
\* start places with their start waypoint), lap_count is 0, last_lap_time is
\* absent and the lap timer is restarted.
C18_TrackLoadResets ==
    TrackLoaded =>
        /\ car.x = GetStartPosition(game.track_index)[1]
        /\ car.y = GetStartPosition(game.track_index)[2]
        /\ car.angle = GetStartAngle(game.track_index)
        /\ car.velocity = 0
        /\ car.prev_x = car.x
        /\ Len(npcs) = game.npc_count
        /\ \A k \in 1..Len(npcs) :
             LET place == GetNpcStartPositions(game.track_index,
                                               game.npc_count)[k]
             IN  /\ npcs[k].x = place[1]
                 /\ npcs[k].y = place[2]
                 /\ npcs[k].current_waypoint = place[3]
                 /\ npcs[k].velocity = 0
                 /\ npcs[k].prev_x = npcs[k].x
        /\ game.lap_count = 0
        /\ game.last_lap_time = None
        /\ game.lap_start_time = game.now
        /\ game.current_lap_time = 0

\* C18 witness: T pressed in a race on the oval with one lap counted and
\* the player moving put the player at rest on the figure-8's start
C18_SwitchedToFigure8 ==
    /\ TrackLoaded
    /\ last.input = "t"
    /\ last.pre.game.lap_count = 1
    /\ last.pre.game.last_lap_time # None
    /\ last.pre.car.velocity # 0
    /\ last.pre.game.lap_start_time # last.pre.game.now
    /\ game.track_index = 1
    /\ car = NewCar(GetStartPosition(1)[1], GetStartPosition(1)[2],
                    GetStartAngle(1))

\* C19: every race in which at least one lap was counted is handed to
\* save_race exactly once when it ends, whatever ends it (R / Restart,
\* return to the main menu from pause, track switch with T, or quitting),
\* with the lap_count reached and the name of the track the laps were driven
\* on; a race with lap_count 0 is never saved and no race is saved twice.
C19_EveryRaceSavedOnce ==
    last.op \in {"key_down", "quit", "frame"} =>
        LET reset  == last.pre.game.lap_count > 0 /\ game.lap_count = 0
            exit   == game.exited /\ ~last.pre.game.exited
                         /\ game.lap_count > 0
        IN  IF reset \/ exit
            THEN /\ Len(game.races) = Len(last.pre.game.races) + 1
                 /\ SubSeq(game.races, 1, Len(last.pre.game.races))
                      = last.pre.game.races
                 /\ game.races[Len(game.races)].track
                      = TrackName(last.pre.game.track_index)
                 /\ game.races[Len(game.races)].laps
                      = (IF reset THEN last.pre.game.lap_count
                         ELSE game.lap_count)
            ELSE game.races = last.pre.game.races

\* C20: at the end of every PLAYING tick the stored player rank is
\* consistent with the state at the end of that tick: it equals 1 plus the
\* number of AI vehicles whose progress is strictly greater than the
\* player's progress computed from the post-collision positions and from
\* lap_count as it stands after that tick's finish-line evaluation.
C20_RankMatchesEndOfTick ==
    PlayedFrame =>
        game.player_position
            = 1 + Cardinality({ k \in 1..Len(npcs) :
                    NpcProgressNow(k) > PlayerProgressNow(game.lap_count) })
----------------------------------------------------------------------------
(* The AI car's steering, speed and waypoint test within one update *)

\* angle_diff of line 70 for an AI car c heading `angle`, towards its
\* current waypoint
AngleDiffTo(c, wps, angle) ==
    AngleDiff(TargetAngle(wps[c.current_waypoint + 1][1] - c.x,
                          wps[c.current_waypoint + 1][2] - c.y), angle)

\* the last step was an update with a waypoint to steer to
SteeredUpdate == last.op = "npc_update" /\ Len(waypoints) > 0

\* C21: in an AI tick the heading changes if and only if |angle_diff| > 2
\* degrees; when it changes it moves toward the target by exactly
\* min(rotation_speed, |angle_diff|), so the absolute angular error after
\* steering equals |angle_diff| - min(rotation_speed, |angle_diff|) and the
\* heading never overshoots the target direction.
C21_SteersTowardTarget ==
    SteeredUpdate =>
        LET d     == AngleDiffTo(last.pre, waypoints, last.pre.angle)
            turn  == Min(npc_rotation_speed, Abs(d))
            after == AngleDiffTo(last.pre, waypoints, npcs[1].angle)
        IN  /\ (npcs[1].angle # last.pre.angle) <=> (Abs(d) > 2 * AngleScale)
            /\ Abs(d) > 2 * AngleScale =>
                 /\ Abs(npcs[1].angle - last.pre.angle) = turn
                 /\ Abs(after) = Abs(d) - turn
                 /\ (d > 0 => after >= 0)
                 /\ (d < 0 => after <= 0)

\* C21 witness: the error was between 2 and 2.5 degrees and the car turned
\* by the error, onto the target direction
C21_TurnedOntoTarget ==
    /\ SteeredUpdate
    /\ Abs(AngleDiffTo(last.pre, waypoints, last.pre.angle)) > 2 * AngleScale
    /\ Abs(AngleDiffTo(last.pre, waypoints, last.pre.angle))
         < npc_rotation_speed
    /\ AngleDiffTo(last.pre, waypoints, npcs[1].angle) = 0

----------------------------------------------------------------------------
(* One AI car updated and pushed by collisions, in any order *)

\* speeds in 1/100 pixel per tick: at rest, and the speed an AI car of
\* difficulty 0.6 settles at on the road (max_velocity - friction)
RaceNpcSpeeds == { 0, 358 }

\* pushes of apply_collision, in position units
RaceNpcPushes == { <<-100, 0>>, <<60, 80>> }

InitNPCRace ==
    /\ waypoints \in { ScaleWaypoints(w) : w \in WaypointLists }
    /\ \E p \in NpcPlaces, a \in NpcAngles, v \in RaceNpcSpeeds,
          wp \in 0..Max(Len(waypoints) - 1, 0) :
         npcs = << [NewNPC(p[1] * PosScale, p[2] * PosScale, 0, wp)
                      EXCEPT !.angle = a * AngleScale,
                             !.velocity = v * (VelScale \div 100)] >>
    /\ car = NewCar(832 * PosScale, 1088 * PosScale, 90 * AngleScale)
    /\ game = [track_index |-> 0]
    /\ last = NoOp
    /\ steps = 0

DoNPCApplyCollision ==
    \E push \in RaceNpcPushes :
        /\ steps < MaxNpcTicks
        /\ npcs' = [npcs EXCEPT
                      ![1] = NPCApplyCollision(@, push[1], push[2])]
        /\ last' = [op |-> "npc_apply_collision", pre |-> npcs[1],
                    on_road |-> TRUE]
        /\ steps' = steps + 1
        /\ UNCHANGED <<car, waypoints, game>>

NextNPCRace ==
    \/ DoNPCUpdate
    \/ DoNPCApplyCollision

SpecNPCRace == InitNPCRace /\ [][NextNPCRace]_vars

\* C22: for an AI vehicle, after any sequence of update and apply_collision
\* calls starting from speed 0, 0 <= velocity <= max_velocity
\* (= 6.0 * difficulty); immediately after each update
\* velocity <= max_velocity * turn_factor with 0.5 <= turn_factor <= 1, and
\* the AI speed is never negative.
C22_NpcSpeedWithinLimits ==
    /\ 0 <= npcs[1].velocity
    /\ npcs[1].velocity <= npcs[1].max_velocity
    /\ npcs[1].max_velocity = (6 * Difficulty(0) * VelScale) \div 100
    /\ SteeredUpdate =>
         LET tf == TurnFactor(
                      AngleDiffTo(last.pre, waypoints, last.pre.angle))
         IN  /\ TurnScale \div 2 <= tf
             /\ tf <= TurnScale
             /\ npcs[1].velocity * TurnScale <= npcs[1].max_velocity * tf

\* C22 witness: a car at its settled speed turned sharply, the
\* acceleration would have taken it over max_velocity * turn_factor, and
\* the update cut the speed to that cap less the friction
C22_CutToTurnCap ==
    /\ SteeredUpdate
    /\ last.on_road
    /\ LET tf  == TurnFactor(
                     AngleDiffTo(last.pre, waypoints, last.pre.angle))
           cap == RoundDiv(last.pre.max_velocity * tf, TurnScale)
       IN  /\ tf < TurnScale
           /\ last.pre.velocity + RoundDiv(npc_acceleration * tf, TurnScale)
                > cap
           /\ npcs[1].velocity = cap - npc_friction

\* squared distance from an AI car c to the waypoint of index k
Dist2To(c, wps, k) ==
    (wps[k + 1][1] - c.x) * (wps[k + 1][1] - c.x)
        + (wps[k + 1][2] - c.y) * (wps[k + 1][2] - c.y)

\* the last update moved the index on (seen when the list has more than
\* one waypoint)
WaypointAdvanced ==
    npcs[1].current_waypoint
        = NextWaypoint(last.pre.current_waypoint, Len(waypoints))

\* C23 as stated: in an AI tick the waypoint-advance test is the last step,
\* evaluated after position integration: current_waypoint advances in a tick
\* exactly when the distance from the vehicle's position after that tick's
\* movement to the target waypoint is below waypoint_threshold.
C23_AdvanceTestedAfterMove ==
    (last.op = "npc_update" /\ Len(waypoints) > 1) =>
        (WaypointAdvanced <=>
            Dist2To(npcs[1], waypoints, last.pre.current_waypoint)
                < waypoint_threshold * waypoint_threshold)

\* C23 amended: the test is the last step of the tick and uses the offset
\* to the target computed before the movement: current_waypoint advances
\* exactly when the distance from the position the vehicle had at the start
\* of the tick to the target waypoint is below waypoint_threshold.
C23_AdvanceTestedBeforeMove ==
    (last.op = "npc_update" /\ Len(waypoints) > 1) =>
        (WaypointAdvanced <=>
            Dist2To(last.pre, waypoints, last.pre.current_waypoint)
                < waypoint_threshold * waypoint_threshold)

\* C23 witness: the car entered the threshold circle during the tick and
\* the index stayed
C23_EnteredCircleIndexStayed ==
    /\ last.op = "npc_update"
    /\ Len(waypoints) > 1
    /\ Dist2To(last.pre, waypoints, last.pre.current_waypoint)
         >= waypoint_threshold * waypoint_threshold
    /\ Dist2To(npcs[1], waypoints, last.pre.current_waypoint)
         < waypoint_threshold * waypoint_threshold
    /\ npcs[1].current_waypoint = last.pre.current_waypoint

----------------------------------------------------------------------------
(* The player's tick: positions, controls and the lap timer *)

\* C24: at the finish-line check of every PLAYING tick, the player's prev_x
\* equals the player's x as it was at the start of that tick (before that
\* tick's integration and collision correction), and the new_x passed to the
\* check is the x after integration and collision correction of the same
\* tick.
C24_FinishCheckSpansTheTick ==
    PlayedFrame =>
        /\ car.prev_x = last.pre.car.x
        /\ game.lap_count \in
             { last.pre.game.lap_count, last.pre.game.lap_count + 1 }
        /\ (game.lap_count = last.pre.game.lap_count + 1) <=>
             CheckFinishLine(last.pre.game.track_index,
                             last.pre.car.x, car.x, car.y)

\* C24 witness: a collision moved the player after the integration, and the
\* lap was counted from the x at the start of the tick to the x after the
\* collision
C24_PushedAndCounted ==
    /\ PlayedFrame
    /\ car.x # StepPlayer(last.pre,
                          HandleInput(last.pre.car, last.input)).car.x
    /\ car.prev_x = last.pre.car.x
    /\ game.lap_count = last.pre.game.lap_count + 1

----------------------------------------------------------------------------
(* The menus under any sequence of key events *)

\* keys pressed during the race that lead to the menus or change what they
\* choose from: pause, and the switch of the track
RaceMenuKeys == { "ESCAPE", "t" }

\* handle_events: one KEYDOWN event, any number of them one after another
DoMenuKey ==
    /\ game.running /\ ~game.exited
    /\ \E key \in (IF game.game_state # PLAYING THEN MenuKeys
                   ELSE RaceMenuKeys) :
         LET s == IF game.game_state # PLAYING
                  THEN HandleMenuActions(St,
                         MenuHandleInput(game.menu, key, game.game_state))
                  ELSE HandlePlayingKey(St, key)
         IN  /\ car' = s.car
             /\ npcs' = s.npcs
             /\ waypoints' = s.waypoints
             /\ game' = s.game
             /\ last' = [op |-> "key_down", input |-> key,
                         state |-> game.game_state]
    /\ UNCHANGED steps

InitMenu ==
    /\ Starts(NewGame(<< >>))
    /\ last = NoOp
    /\ steps = 0

NextMenu == DoMenuKey

SpecMenu == InitMenu /\ [][NextMenu]_vars

\* number of options on the screen of a game state
OptionCount(state) ==
    IF state = MENU THEN Len(main_options)
    ELSE IF state = TRACK_SELECT THEN Len(track_names)
    ELSE IF state = CAR_TYPE_SELECT THEN NumCarTypes
    ELSE IF state = CAR_COLOR_SELECT THEN NumCarColors
    ELSE Len(pause_options)

\* C25: in every reachable state of the menu, selected_index is a valid
\* index into the option list of the current game state (4 main-menu
\* options, 2 tracks, the car types, the car colours, 3 pause options), and
\* selected_track, selected_car_type and selected_car_color always denote an
\* existing track, car type and colour, for any sequence of key events
\* including entering the pause menu from the race.
C25_MenuSelectionsValid ==
    /\ Len(main_options) = 4
    /\ Len(track_names) = 2
    /\ Len(pause_options) = 3
    /\ game.game_state # PLAYING =>
         game.menu.selected_index \in 0..(OptionCount(game.game_state) - 1)
    /\ game.menu.selected_track \in 0..(Len(track_names) - 1)
    /\ game.menu.selected_car_type \in 1..NumCarTypes
    /\ game.menu.selected_car_color \in 0..(NumCarColors - 1)
    /\ game.track_index \in TrackIndexes
    /\ game.selected_car_type \in 1..NumCarTypes
    /\ game.selected_car_color \in 0..(NumCarColors - 1)

\* C25 witness: the pause menu entered from a race on the second track with
\* the last car type and the last colour chosen, its last option selected
C25_PausedAfterChoosingTheLast ==
    /\ game.game_state = PAUSED
    /\ game.menu.selected_index = Len(pause_options) - 1
    /\ game.menu.selected_track = Len(track_names) - 1
    /\ game.menu.selected_car_type = NumCarTypes
    /\ game.menu.selected_car_color = NumCarColors - 1

----------------------------------------------------------------------------
(* handle_events over the event queue of a frame *)

MaxEventFrames == 2

\* what pygame.event.get() can hold: key presses, a mouse movement, the
\* QUIT event
EventKinds == { "DOWN", "RETURN", "ESCAPE", "MOUSEMOTION", "QUIT" }
IsKeyDown(e) == e \notin { "MOUSEMOTION", "QUIT" }

\* the queues of a frame: no event, one, or two
EventQueues ==
    { << >> } \cup { <<e>> : e \in EventKinds }
        \cup { <<e, f>> : e \in EventKinds, f \in EventKinds }

\* handle_events, lines 165-169: an event while a menu is shown
HandleMenuEvent(s, e) ==
    IF IsKeyDown(e)
    THEN HandleMenuActions(s,
            MenuHandleInput(s.game.menu, e, s.game.game_state))
    ELSE s

\* handle_events, lines 172-181: an event during the race
HandleRaceEvent(s, e) == IF IsKeyDown(e) THEN HandlePlayingKey(s, e) ELSE s

\* handle_events: the loop over pygame.event.get(), which has emptied the
\* queue; QUIT and any event met while a menu is shown end the loop
RECURSIVE HandleEvents(_, _)
HandleEvents(s, events) ==
    IF events = << >> THEN s
    ELSE IF Head(events) = "QUIT" THEN [s EXCEPT !.game.running = FALSE]
    ELSE IF s.game.game_state # PLAYING
    THEN HandleMenuEvent(s, Head(events))
    ELSE HandleEvents(HandleRaceEvent(s, Head(events)), Tail(events))

InitEvents ==
    /\ \/ Starts(NewGame(<< >>))
       \/ Starts(Racing(<< >>, <<-64, 0>>, 0, 10, "start"))
    /\ last = NoOp
    /\ steps = 0

DoHandleEvents ==
    /\ steps < MaxEventFrames
    /\ game.running /\ ~game.exited
    /\ \E events \in EventQueues :
         Becomes(HandleEvents(St, events), "events", events)

NextEvents == DoHandleEvents

SpecEvents == InitEvents /\ [][NextEvents]_vars

\* every event of the queue handled in arrival order by the handler of the
\* game state in force when it is reached; QUIT ends the program
RECURSIVE HandleEveryEvent(_, _)
HandleEveryEvent(s, events) ==
    IF events = << >> THEN s
    ELSE IF Head(events) = "QUIT" THEN [s EXCEPT !.game.running = FALSE]
    ELSE IF ~s.game.running THEN s
    ELSE HandleEveryEvent(
            IF s.game.game_state # PLAYING
            THEN HandleMenuEvent(s, Head(events))
            ELSE HandleRaceEvent(s, Head(events)),
            Tail(events))

\* C26: no key press is lost: every KEYDOWN event present in the event queue
\* of a frame is processed by the handler of the game state in force when it
\* is reached, in arrival order, also when several events arrive in one
\* frame while a menu or the pause screen is shown.
C26_NoKeyPressLost ==
    last.op = "events" => St = HandleEveryEvent(last.pre, last.input)

\* the held keys with each control named once, by its WASD key
OneBinding(keys) ==
    { k \in {"w", "s", "a", "d"} :
        \/ k \in keys
        \/ k = "w" /\ "UP" \in keys
        \/ k = "s" /\ "DOWN" \in keys
        \/ k = "a" /\ "LEFT" \in keys
        \/ k = "d" /\ "RIGHT" \in keys }

\* C27: within one tick each of the four control actions (accelerate,
\* brake, steer left, steer right) is applied to the player vehicle at most
\* once, whatever combination of WASD and arrow keys is held; in particular
\* the speed gained from throttle in one tick never exceeds one acceleration
\* step.
C27_OneThrottleStepPerTick ==
    PlayedFrame =>
        /\ car = MoveCars(last.pre, OneBinding(last.input)).car
        /\ HandleInput(last.pre.car, last.input).velocity
              - last.pre.car.velocity <= acceleration

----------------------------------------------------------------------------
(* Races paused, crept back over the line, and driven along the wall *)

\* the player's x relative to the finish line (pixels) and speed (1/100
\* pixel per tick), heading 90: about to cross the line forwards; on the
\* line, creeping backwards after reversing from the start; at rest against
\* the left wall of the world
RacePlayerSituations == { <<2, 400>>, <<0, -12>>, <<-876, 0>> }
\* the first AI car: round the track near waypoint 2, or 30 pixels from the
\* player
RaceNpcSituations == { "ahead", "touching" }
\* time since the lap timer was last reset when the situation was reached
RaceElapsed == { 10 }
\* clock units spent on the pause screen so far
PausedTimes == { 5 }

\* ESCAPE during the race (handle_events lines 173-175) and the frames
\* that run while the pause screen is shown: only the clock moves
PausedSince(s, dt) ==
    [s EXCEPT !.game.game_state = PAUSED,
              !.game.menu.selected_index = 0,
              !.game.now = @ + dt]

InitRace ==
    /\ \E races \in StoredRaces, p \in RacePlayerSituations,
          laps \in LapSituations, n \in RaceNpcSituations,
          elapsed \in RaceElapsed :
         \/ Starts(Racing(races, p, laps, elapsed, n))
         \/ \E dt \in PausedTimes :
              Starts(PausedSince(Racing(races, p, laps, elapsed, n), dt))
    /\ last = NoOp
    /\ steps = 0

SpecRace == InitRace /\ [][NextGame]_vars

\* C28: the lap time recorded at a counted crossing (last_lap_time, and
\* through it best_lap_time) covers only time during which the game was in
\* the PLAYING state since the lap started: frames spent in the PAUSED state
\* do not add to the lap time.  current_lap_time is refreshed by every
\* PLAYING frame and by no other, so the recorded time is at most the
\* current_lap_time before the frame plus the time of one frame.
C28_LapTimeExcludesPause ==
    CountedCrossing =>
        \E dt \in FrameTimes :
            game.last_lap_time <= last.pre.game.current_lap_time + dt

\* the player stood at or before the line one tick and beyond it the next,
\* inside the line's y-range: driven back over it in the increasing-x
\* direction
BackedOverLine(c, track_index) ==
    /\ c.prev_x <= finish_line_x(track_index)
    /\ finish_line_x(track_index) < c.x
    /\ finish_line_y1(track_index) <= c.y
    /\ c.y <= finish_line_y2(track_index)

\* C29: lap_count is incremented only when the player has gone round the
\* track since the previous increment (or since the race start): driving
\* back over the finish line in the increasing-x direction and then
\* crossing it again in the decreasing-x direction, without making a
\* circuit, does not add a lap.  No circuit fits in one tick, so no lap is
\* counted in the tick after one that took the player back over the line.
C29_LapNeedsCircuit ==
    (/\ PlayedFrame
     /\ BackedOverLine(last.pre.car, last.pre.game.track_index)) =>
        game.lap_count = last.pre.game.lap_count

\* C30: at the end of every PLAYING tick, i.e. after collision resolution,
\* the player's position is inside the world margin: collision_radius <= x
\* <= world_width - collision_radius and collision_radius <= y <=
\* world_height - collision_radius, for any number of AI vehicles and any
\* sequence of inputs.
C30_PlayerInsideMargin ==
    PlayedFrame =>
        /\ car_collision_radius <= car.x
        /\ car.x <= GetWorldSize(game.track_index)[1] - car_collision_radius
        /\ car_collision_radius <= car.y
        /\ car.y <= GetWorldSize(game.track_index)[2] - car_collision_radius
====
